---------------------------- MODULE Spec2Model ----------------------------
(***************************************************************************)
(* FuzzDex: a fuzzy phrase index.  An Indexer gathers phrases, finish      *)
(* freezes it into an Index that answers search queries through a cache    *)
(* of trigram heatmaps.  The Python binding wraps both in one object       *)
(* (enum FuzzDex) and rejects calls made in the wrong state.               *)
(*                                                                         *)
(* Strings are sequences of one-character strings.  An f32 score s is the  *)
(* integer s * ScoreScale; sums of scores are exact.                       *)
(***************************************************************************)
EXTENDS Integers, Sequences, FiniteSets, TLC

(***************************************************************************)
(* Bounds of the model.                                                    *)
(***************************************************************************)
MaxId == 2
MaxConstraint == 1
MaxCacheArg == 1
MaxLimit == 1
MaxDist == 1
MaxSearches == 2
MaxThreads == 2
MaxCalls == 3
MaxSeqCalls == 4
MaxCapacity == 2
MaxMustTokens == 3
MaxTokenLen == 6
MaxScanPhrases == 3
MaxShouldPhrases == 2
MaxRawPhrases == 2

(***************************************************************************)
(* Option<T>: None is the empty tuple, Some(x) the tuple of x.             *)
(***************************************************************************)
None == <<>>

Some(x) == <<x>>

unwrap_or(opt, default) == IF opt = None THEN default ELSE opt[1]

Option(S) == {None} \cup {Some(x) : x \in S}

\* Stands for usize::MAX: no length, limit or distance of the model reaches it.
UsizeMax == 2147483647

Min(a, b) == IF a <= b THEN a ELSE b

(***************************************************************************)
(* Characters.  len() of a Rust string counts UTF-8 bytes.  "l/" is the    *)
(* letter l with stroke (U+0142), "sz" the sharp s (U+00DF) and "o'" the   *)
(* letter o with acute accent (U+00F3), two bytes each.                    *)
(***************************************************************************)
CharCode(c) ==
    CASE c = " " -> 32
      [] c = "," -> 44
      [] c = "A" -> 65
      [] c = "B" -> 66
      [] c = "a" -> 97
      [] c = "b" -> 98
      [] c = "c" -> 99
      [] c = "d" -> 100
      [] c = "l" -> 108
      [] c = "o" -> 111
      [] c = "s" -> 115
      [] c = "x" -> 120
      [] c = "sz" -> 223
      [] c = "o'" -> 243
      [] c = "l/" -> 322

CharBytes(c) == IF CharCode(c) < 128 THEN 1 ELSE 2

RECURSIVE ByteLen(_)
ByteLen(s) == IF s = <<>> THEN 0 ELSE CharBytes(Head(s)) + ByteLen(Tail(s))

to_lowercase_char(c) ==
    CASE c = "A" -> "a"
      [] c = "B" -> "b"
      [] OTHER -> c

to_lowercase(s) == [i \in 1..Len(s) |-> to_lowercase_char(s[i])]

IsWhitespace(c) == c = " "

RECURSIVE trim_start(_)
trim_start(s) ==
    IF s # <<>> /\ IsWhitespace(Head(s)) THEN trim_start(Tail(s)) ELSE s

RECURSIVE trim_end(_)
trim_end(s) ==
    IF s # <<>> /\ IsWhitespace(s[Len(s)])
    THEN trim_end(SubSeq(s, 1, Len(s) - 1))
    ELSE s

trim(s) == trim_end(trim_start(s))

\* The characters of the SEPARATOR class that the model's alphabet holds.
SEPARATOR == {" ", ","}

(***************************************************************************)
(* Regex::split on SEPARATOR+ : the pieces between maximal runs of         *)
(* separators; a leading or trailing run leaves an empty piece.            *)
(***************************************************************************)
RECURSIVE split_from(_, _, _, _)
split_from(s, i, piece, inRun) ==
    IF i > Len(s) THEN <<piece>>
    ELSE IF s[i] \in SEPARATOR
         THEN IF inRun THEN split_from(s, i + 1, piece, TRUE)
              ELSE <<piece>> \o split_from(s, i + 1, <<>>, TRUE)
         ELSE split_from(s, i + 1, Append(piece, s[i]), FALSE)

split(s) == split_from(s, 1, <<>>, FALSE)

RECURSIVE filter_min_length(_, _)
filter_min_length(ts, min_length) ==
    IF ts = <<>> THEN <<>>
    ELSE IF ByteLen(Head(ts)) >= min_length
         THEN <<Head(ts)>> \o filter_min_length(Tail(ts), min_length)
         ELSE filter_min_length(Tail(ts), min_length)

tokenize(phrase, min_length) ==
    LET pieces == split(phrase)
        lowered == [i \in 1..Len(pieces) |-> to_lowercase(trim(pieces[i]))]
    IN  filter_min_length(lowered, min_length)

(***************************************************************************)
(* trigramize: accents are stripped, the replacement table is applied,     *)
(* then graphemes are grouped in threes.  A trigram is a sequence of       *)
(* one-character strings.                                                  *)
(***************************************************************************)
\* nfd() and the filter of non-spacing marks: the accent goes, the letter
\* stays.
strip_accents(token) ==
    [i \in 1..Len(token) |-> IF token[i] = "o'" THEN "o" ELSE token[i]]

replace_char(c) ==
    CASE c = "l/" -> <<"l">>
      [] c = "sz" -> <<"s", "s">>
      [] OTHER -> <<c>>

RECURSIVE normalize(_)
normalize(token) ==
    IF token = <<>> THEN <<>>
    ELSE replace_char(Head(token)) \o normalize(Tail(token))

\* trigramize without the two trigrams added for 4 and 5 graphemes.
trigramize_sliding_only(token) ==
    LET graphemes == normalize(strip_accents(token))
        cnt == Len(graphemes)
        sliding == IF cnt >= 3
                   THEN [i \in 1..(cnt - 2) |-> SubSeq(graphemes, i, i + 2)]
                   ELSE <<>>
    IN  CASE cnt = 1 -> Append(sliding, <<graphemes[1], " ", " ">>)
          [] cnt = 2 -> Append(sliding, <<graphemes[1], graphemes[2], " ">>)
          [] OTHER -> sliding

trigramize(token) ==
    LET graphemes == normalize(strip_accents(token))
        cnt == Len(graphemes)
        sliding == IF cnt >= 3
                   THEN [i \in 1..(cnt - 2) |-> SubSeq(graphemes, i, i + 2)]
                   ELSE <<>>
    IN  CASE cnt = 1 -> Append(sliding, <<graphemes[1], " ", " ">>)
          [] cnt = 2 -> Append(sliding, <<graphemes[1], graphemes[2], " ">>)
          [] cnt \in {4, 5} ->
                sliding \o << <<graphemes[1], graphemes[2], graphemes[cnt]>>,
                              <<graphemes[1], graphemes[cnt - 1], graphemes[cnt]>> >>
          [] OTHER -> sliding

(***************************************************************************)
(* distance: Levenshtein over the first MaxGraphemes graphemes, by         *)
(* tabulation, one row at a time.                                          *)
(***************************************************************************)
MaxGraphemes == 500

take(s, n) == SubSeq(s, 1, Min(Len(s), n))

Min3(a, b, c) == Min(a, Min(b, c))

RECURSIVE lev_row(_, _, _, _, _)
lev_row(prev, ch, b, j, row) ==
    IF j > Len(b) THEN row
    ELSE LET cost == IF ch = b[j] THEN 0 ELSE 1
             cell == Min3(prev[j + 1] + 1, row[j] + 1, prev[j] + cost)
         IN  lev_row(prev, ch, b, j + 1, Append(row, cell))

RECURSIVE lev_rows(_, _, _, _)
lev_rows(a, b, i, prev) ==
    IF i > Len(a) THEN prev[Len(b) + 1]
    ELSE lev_rows(a, b, i + 1, lev_row(prev, a[i], b, 1, <<i>>))

distance(side_a, side_b) ==
    LET graphemes_a == take(side_a, MaxGraphemes)
        graphemes_b == take(side_b, MaxGraphemes)
    IN  lev_rows(graphemes_a, graphemes_b, 1,
                 [j \in 1..(Len(graphemes_b) + 1) |-> j - 1])

(***************************************************************************)
(* Indexer.  db maps a trigram to its TrigramEntry, phrases a phrase index *)
(* to its PhraseEntry.  token_idx counts from 0, as enumerate() does.      *)
(***************************************************************************)
ScoreScale == 1000000

Position(phrase_idx, token_idx) ==
    [phrase_idx |-> phrase_idx, token_idx |-> token_idx]

Indexer_new == [db |-> <<>>, phrases |-> <<>>]

PhraseEntry_new(idx, phrase, constraints) ==
    [idx |-> idx,
     origin |-> phrase,
     tokens |-> tokenize(phrase, 1),
     constraints |-> IF constraints = None THEN {} ELSE constraints[1]]

RECURSIVE add_trigrams(_, _, _, _)
add_trigrams(db, trigrams, phrase_idx, token_idx) ==
    IF trigrams = <<>> THEN db
    ELSE LET trigram == Head(trigrams)
             entry == IF trigram \in DOMAIN db THEN db[trigram]
                      ELSE [positions |-> <<>>, score |-> 0]
             pushed == [positions |-> Append(entry.positions,
                                             Position(phrase_idx, token_idx)),
                        score |-> entry.score + ScoreScale]
             db2 == [t \in DOMAIN db \cup {trigram} |->
                        IF t = trigram THEN pushed ELSE db[t]]
         IN  add_trigrams(db2, Tail(trigrams), phrase_idx, token_idx)

\* add_token that files every token of the phrase as its first token.
add_token_as_first(db, token, phrase_idx, token_idx) ==
    add_trigrams(db, trigramize(token), phrase_idx, 0)

add_token(db, token, phrase_idx, token_idx) ==
    add_trigrams(db, trigramize(token), phrase_idx, token_idx)

RECURSIVE add_tokens(_, _, _, _)
add_tokens(db, tokens, phrase_idx, token_idx) ==
    IF token_idx >= Len(tokens) THEN db
    ELSE add_tokens(add_token(db, tokens[token_idx + 1], phrase_idx, token_idx),
                    tokens, phrase_idx, token_idx + 1)

\* add_phrase without the check of the id: the entry is overwritten.
add_phrase_overwriting(indexer, phrase, phrase_idx, constraints) ==
    LET entry == PhraseEntry_new(phrase_idx, phrase, constraints)
    IN  [result |-> "Ok",
         indexer |->
            [db |-> add_tokens(indexer.db, entry.tokens, phrase_idx, 0),
             phrases |-> [i \in DOMAIN indexer.phrases \cup {phrase_idx} |->
                            IF i = phrase_idx THEN entry
                            ELSE indexer.phrases[i]]]]

\* The Result of add_phrase and the Indexer it leaves.
add_phrase(indexer, phrase, phrase_idx, constraints) ==
    IF phrase_idx \in DOMAIN indexer.phrases
    THEN [result |-> "DuplicateId", indexer |-> indexer]
    ELSE LET entry == PhraseEntry_new(phrase_idx, phrase, constraints)
         IN  [result |-> "Ok",
              indexer |->
                [db |-> add_tokens(indexer.db, entry.tokens, phrase_idx, 0),
                 phrases |-> [i \in DOMAIN indexer.phrases \cup {phrase_idx} |->
                                IF i = phrase_idx THEN entry
                                ELSE indexer.phrases[i]]]]

(***************************************************************************)
(* tanh on fixed-point numbers: the values at multiples of 0.5, joined by  *)
(* straight lines; odd, and constant beyond the last knot.                 *)
(***************************************************************************)
TanhKnots == <<0, 462117, 761594, 905148, 964028, 986614,
               995055, 998178, 999329, 999753, 999909, 999967>>

Abs(x) == IF x < 0 THEN -x ELSE x

tanh(x) ==
    LET milli == Abs(x) \div (ScoreScale \div 1000)
        k == milli \div 500
        f == milli % 500
        t == IF k + 2 > Len(TanhKnots) THEN TanhKnots[Len(TanhKnots)]
             ELSE TanhKnots[k + 1]
                  + ((TanhKnots[k + 2] - TanhKnots[k + 1]) * f) \div 500
    IN  IF x < 0 THEN -t ELSE t

RECURSIVE SumOver(_, _)
SumOver(S, f) ==
    IF S = {} THEN 0
    ELSE LET x == CHOOSE y \in S : TRUE
         IN  f[x] + SumOver(S \ {x}, f)

MaxOver(S, f) == LET x == CHOOSE y \in S : \A z \in S : f[z] <= f[y] IN f[x]

\* trigram_score without the division by max.
trigram_score_unranged(average, max, popularity) ==
    LET centered == average - popularity - ScoreScale
        ranged == 5 * centered
        zero_to_one == (ScoreScale \div 2) + tanh(ranged) \div 2
    IN  zero_to_one

trigram_score(average, max, popularity) ==
    LET centered == average - popularity - ScoreScale
        ranged == (5 * centered) \div max
        zero_to_one == (ScoreScale \div 2) + tanh(ranged) \div 2
    IN  zero_to_one

Cache_new(cache_size) ==
    [stats |-> [hits |-> 0, misses |-> 0, inserts |-> 0],
     heatmaps |-> <<>>,
     cap |-> cache_size]

\* poisoned is the state of the Mutex that wraps the cache.
Index_new(indexer, cache_size) ==
    [index |-> indexer, cache |-> Cache_new(cache_size), poisoned |-> FALSE]

finish_with_cache(indexer, cache_size) ==
    IF DOMAIN indexer.db = {} THEN Index_new(indexer, cache_size)
    ELSE LET db == indexer.db
             lens == [t \in DOMAIN db |-> Len(db[t].positions)]
             average == (SumOver(DOMAIN db, lens) * ScoreScale)
                            \div Cardinality(DOMAIN db)
             max == MaxOver(DOMAIN db, lens)
             scored == [t \in DOMAIN db |->
                          [positions |-> db[t].positions,
                           score |-> trigram_score(average, max, db[t].score)]]
         IN  Index_new([db |-> scored, phrases |-> indexer.phrases], cache_size)

DefaultCacheSize == 2000

finish(indexer) == finish_with_cache(indexer, DefaultCacheSize)

(***************************************************************************)
(* Heatmap: phrase_idx -> (token_idx -> score, total_score), and the       *)
(* highest total_score seen.                                               *)
(***************************************************************************)
Heatmap_new == [phrases |-> <<>>, max_score |-> 0]

PhraseHeatmap_new(phrase_idx) ==
    [phrase_idx |-> phrase_idx, tokens |-> <<>>, total_score |-> 0]

Heatmap_add_phrase(heatmap, phrase_idx, token_idx, score) ==
    LET old == IF phrase_idx \in DOMAIN heatmap.phrases
               THEN heatmap.phrases[phrase_idx]
               ELSE PhraseHeatmap_new(phrase_idx)
        token_score == IF token_idx \in DOMAIN old.tokens
                       THEN old.tokens[token_idx] ELSE 0
        phrase_level ==
            [phrase_idx |-> phrase_idx,
             tokens |-> [i \in DOMAIN old.tokens \cup {token_idx} |->
                            IF i = token_idx THEN token_score + score
                            ELSE old.tokens[i]],
             total_score |-> old.total_score + score]
    IN  [phrases |-> [p \in DOMAIN heatmap.phrases \cup {phrase_idx} |->
                        IF p = phrase_idx THEN phrase_level
                        ELSE heatmap.phrases[p]],
         max_score |-> IF phrase_level.total_score > heatmap.max_score
                       THEN phrase_level.total_score
                       ELSE heatmap.max_score]

has_phrase(heatmap, phrase_idx) == phrase_idx \in DOMAIN heatmap.phrases

RECURSIVE heat_positions(_, _, _)
heat_positions(heatmap, positions, score) ==
    IF positions = <<>> THEN heatmap
    ELSE heat_positions(
            Heatmap_add_phrase(heatmap, Head(positions).phrase_idx,
                               Head(positions).token_idx, score),
            Tail(positions), score)

RECURSIVE heat_trigrams(_, _, _)
heat_trigrams(heatmap, db, trigrams) ==
    IF trigrams = <<>> THEN heatmap
    ELSE LET trigram == Head(trigrams)
             heated == IF trigram \in DOMAIN db
                       THEN heat_positions(heatmap, db[trigram].positions,
                                           db[trigram].score)
                       ELSE heatmap
         IN  heat_trigrams(heated, db, Tail(trigrams))

\* The content of the heatmap create_heatmap builds on a cache miss.
compute_heatmap(db, token) == heat_trigrams(Heatmap_new, db, trigramize(token))

PermSeqs(S) ==
    {f \in [1..Cardinality(S) -> S] :
        \A i, j \in 1..Cardinality(S) : i # j => f[i] # f[j]}

\* The maps of a heatmap are hash maps, each made with its own
\* FastHash::new(): a random state that fixes the order in which that map
\* iterates.  phrases is the order of heatmap.phrases.values(), tokens[p]
\* the order of the token map of phrase p.
HashOrders(heatmap) ==
    {[phrases |-> ps, tokens |-> ts] :
        ps \in PermSeqs(DOMAIN heatmap.phrases),
        ts \in {f \in [DOMAIN heatmap.phrases ->
                            UNION {PermSeqs(DOMAIN heatmap.phrases[p].tokens) :
                                        p \in DOMAIN heatmap.phrases}] :
                    \A p \in DOMAIN heatmap.phrases :
                        f[p] \in PermSeqs(DOMAIN heatmap.phrases[p].tokens)}}

\* The heatmaps a miss can build: the content, in each iteration order.
build_heatmap(db, token) ==
    LET heatmap == compute_heatmap(db, token)
    IN  {[phrases |-> [p \in DOMAIN heatmap.phrases |->
                        [phrase_idx |-> p,
                         tokens |-> heatmap.phrases[p].tokens,
                         total_score |-> heatmap.phrases[p].total_score,
                         iter |-> order.tokens[p]]],
          max_score |-> heatmap.max_score,
          iter |-> order.phrases] : order \in HashOrders(heatmap)}

(***************************************************************************)
(* LruCache: the entries, most recently used first, and the capacity.      *)
(***************************************************************************)
lru_find(heatmaps, key) ==
    {i \in 1..Len(heatmaps) : heatmaps[i].key = key}

lru_remove(heatmaps, i) ==
    SubSeq(heatmaps, 1, i - 1) \o SubSeq(heatmaps, i + 1, Len(heatmaps))

\* get that leaves the entry where it is.
lru_get_in_place(heatmaps, key) ==
    IF lru_find(heatmaps, key) = {}
    THEN [value |-> None, heatmaps |-> heatmaps]
    ELSE LET i == CHOOSE j \in lru_find(heatmaps, key) : TRUE
         IN  [value |-> Some(heatmaps[i].value), heatmaps |-> heatmaps]

\* get: the value, and the entry moved to the front.
lru_get(heatmaps, key) ==
    IF lru_find(heatmaps, key) = {}
    THEN [value |-> None, heatmaps |-> heatmaps]
    ELSE LET i == CHOOSE j \in lru_find(heatmaps, key) : TRUE
         IN  [value |-> Some(heatmaps[i].value),
              heatmaps |-> <<heatmaps[i]>> \o lru_remove(heatmaps, i)]

\* put that never evicts.
lru_put_unbounded(heatmaps, cap, key, value) ==
    LET node == [key |-> key, value |-> value]
    IN  IF lru_find(heatmaps, key) # {}
        THEN LET i == CHOOSE j \in lru_find(heatmaps, key) : TRUE
             IN  <<node>> \o lru_remove(heatmaps, i)
        ELSE <<node>> \o heatmaps

\* put into a cache of capacity >= 1.
lru_put(heatmaps, cap, key, value) ==
    LET node == [key |-> key, value |-> value]
    IN  IF lru_find(heatmaps, key) # {}
        THEN LET i == CHOOSE j \in lru_find(heatmaps, key) : TRUE
             IN  <<node>> \o lru_remove(heatmaps, i)
        ELSE IF Len(heatmaps) = cap
             THEN <<node>> \o SubSeq(heatmaps, 1, Len(heatmaps) - 1)
             ELSE <<node>> \o heatmaps

(***************************************************************************)
(* Query.  scan_cutoff is a number of tenths.                              *)
(***************************************************************************)
CutoffDen == 10
DefaultScanCutoff == 3
DefaultMaxDistance == 2

\* The orders sort_unstable_by_key(-len) can leave the tokens in.
sorted_by_len_desc(tokens) ==
    {[i \in 1..Len(tokens) |-> tokens[perm[i]]] :
        perm \in {f \in PermSeqs(1..Len(tokens)) :
                    \A i, j \in 1..Len(tokens) :
                        i < j => ByteLen(tokens[f[i]]) >= ByteLen(tokens[f[j]])}}

\* Query::new without the sort: the first token becomes the must.
Query_new_unsorted(must, should) ==
    LET tokens == tokenize(must, 1)
    IN  {[must |-> IF Len(tokens) > 1 THEN tokens[1] ELSE must,
          should |-> IF Len(tokens) > 1 THEN should \o Tail(tokens) ELSE should,
          constraint |-> None,
          limit |-> None,
          max_distance |-> Some(DefaultMaxDistance),
          scan_cutoff |-> DefaultScanCutoff]}

\* Query::new, for each order the sort can give.
\* Query::new that takes the must token from the tokenizer whenever the
\* tokenizer finds one.
Query_new_tokenized(must, should) ==
    LET tokens == tokenize(must, 1)
    IN  IF Len(tokens) >= 1
        THEN {[must |-> sorted[1],
               should |-> should \o Tail(sorted),
               constraint |-> None,
               limit |-> None,
               max_distance |-> Some(DefaultMaxDistance),
               scan_cutoff |-> DefaultScanCutoff] :
                    sorted \in sorted_by_len_desc(tokens)}
        ELSE {[must |-> must,
               should |-> should,
               constraint |-> None,
               limit |-> None,
               max_distance |-> Some(DefaultMaxDistance),
               scan_cutoff |-> DefaultScanCutoff]}

Query_new(must, should) ==
    LET tokens == tokenize(must, 1)
    IN  IF Len(tokens) > 1
        THEN {[must |-> sorted[1],
               should |-> should \o Tail(sorted),
               constraint |-> None,
               limit |-> None,
               max_distance |-> Some(DefaultMaxDistance),
               scan_cutoff |-> DefaultScanCutoff] :
                    sorted \in sorted_by_len_desc(tokens)}
        ELSE {[must |-> must,
               should |-> should,
               constraint |-> None,
               limit |-> None,
               max_distance |-> Some(DefaultMaxDistance),
               scan_cutoff |-> DefaultScanCutoff]}

(***************************************************************************)
(* should_scores: phrase_idx -> score, for the phrases of the heatmap that *)
(* a should token's first four trigrams hit.                               *)
(***************************************************************************)
ShouldTrigrams == 4

\* Whether a position's phrase gets a should score, with the has_phrase
\* test left out.
should_counts_any_phrase(phrases, heatmap, p, constraint) ==
    ~(constraint # None /\ constraint[1] \notin phrases[p].constraints)

\* Whether a position's phrase gets a should score: it matches the
\* constraint and is in the heatmap.
should_counts(phrases, heatmap, p, constraint) ==
    /\ ~(constraint # None /\ constraint[1] \notin phrases[p].constraints)
    /\ has_phrase(heatmap, p)

RECURSIVE should_positions(_, _, _, _, _, _)
should_positions(map, phrases, heatmap, positions, score, constraint) ==
    IF positions = <<>> THEN map
    ELSE LET p == Head(positions).phrase_idx
             added == IF should_counts(phrases, heatmap, p, constraint)
                      THEN [q \in DOMAIN map \cup {p} |->
                              IF q = p
                              THEN (IF p \in DOMAIN map THEN map[p] ELSE 0) + score
                              ELSE map[q]]
                      ELSE map
         IN  should_positions(added, phrases, heatmap, Tail(positions),
                              score, constraint)

RECURSIVE should_trigrams(_, _, _, _, _)
should_trigrams(map, index, heatmap, trigrams, constraint) ==
    IF trigrams = <<>> THEN map
    ELSE LET trigram == Head(trigrams)
             added == IF trigram \in DOMAIN index.db
                      THEN should_positions(map, index.phrases, heatmap,
                                            index.db[trigram].positions,
                                            index.db[trigram].score, constraint)
                      ELSE map
         IN  should_trigrams(added, index, heatmap, Tail(trigrams), constraint)

\* The trigrams of a should token with truncate left out: all of them.
should_token_trigrams_all(token) == trigramize(token)

\* The trigrams of a should token that are looked up: trigramize, then
\* truncate(4).
should_token_trigrams(token) == take(trigramize(token), ShouldTrigrams)

RECURSIVE should_tokens_scores(_, _, _, _, _)
should_tokens_scores(map, index, heatmap, should_tokens, constraint) ==
    IF should_tokens = <<>> THEN map
    ELSE should_tokens_scores(
            should_trigrams(map, index, heatmap,
                            should_token_trigrams(Head(should_tokens)),
                            constraint),
            index, heatmap, Tail(should_tokens), constraint)

should_scores(index, heatmap, should_tokens, constraint) ==
    should_tokens_scores(<<>>, index, heatmap, should_tokens, constraint)

(***************************************************************************)
(* filtered_results.  sorted_by is a stable sort of what the hash map      *)
(* iterates, so phrases (and tokens) with equal keys are scanned in the    *)
(* order of the map.  sort_unstable_by sorts a slice of 20 elements or     *)
(* fewer by insertion, which keeps equal elements in their order; the      *)
(* lists of the model are shorter.                                         *)
(***************************************************************************)
RECURSIVE str_less(_, _)
str_less(a, b) ==
    IF b = <<>> THEN FALSE
    ELSE IF a = <<>> THEN TRUE
    ELSE IF CharCode(Head(a)) # CharCode(Head(b))
         THEN CharCode(Head(a)) < CharCode(Head(b))
         ELSE str_less(Tail(a), Tail(b))

\* seq sorted by before, elements that compare equal left in their order.
StableSort(seq, before(_, _)) ==
    LET n == Len(seq)
        perm == CHOOSE f \in PermSeqs(1..n) :
                    \A i, j \in 1..n : i < j =>
                        \/ before(seq[f[i]], seq[f[j]])
                        \/ ~before(seq[f[j]], seq[f[i]]) /\ f[i] < f[j]
    IN  [k \in 1..n |-> seq[perm[k]]]

\* No constraint filter: every phrase of the heatmap.
constrained_phrases_unfiltered(index, query, heatmap) == DOMAIN heatmap.phrases

\* The phrases of the heatmap that pass the query's constraint.
constrained_phrases(index, query, heatmap) ==
    {p \in DOMAIN heatmap.phrases :
        query.constraint = None
        \/ query.constraint[1] \in index.phrases[p].constraints}

should_score_of(should, p) == IF p \in DOMAIN should THEN should[p] ELSE 0

RECURSIVE once_per_token(_, _)
once_per_token(heatmap, ps) ==
    IF ps = <<>> THEN <<>>
    ELSE [k \in 1..Cardinality(DOMAIN heatmap.phrases[Head(ps)].tokens) |-> Head(ps)]
            \o once_per_token(heatmap, Tail(ps))

\* The phrases that pass the constraint, in the order the map iterates:
\* no sort.
phrases_by_score_unsorted(index, query, heatmap, should) ==
    LET kept(p) == p \in constrained_phrases(index, query, heatmap)
    IN  SelectSeq(heatmap.iter, kept)

\* A scan over the heatmap's token entries: a phrase comes once per token.
phrases_by_score_per_token(index, query, heatmap, should) ==
    LET combined(p) == heatmap.phrases[p].total_score + should_score_of(should, p)
        before(a, b) ==
            \/ combined(a) > combined(b)
            \/ /\ combined(a) = combined(b)
               /\ ByteLen(index.phrases[a].origin) < ByteLen(index.phrases[b].origin)
        kept(p) == p \in constrained_phrases(index, query, heatmap)
    IN  StableSort(once_per_token(heatmap, SelectSeq(heatmap.iter, kept)), before)

\* The order in which the phrases are scanned: those that pass the
\* constraint, by total_score + should_score descending, then origin length
\* ascending.
phrases_by_score(index, query, heatmap, should) ==
    LET combined(p) == heatmap.phrases[p].total_score + should_score_of(should, p)
        before(a, b) ==
            \/ combined(a) > combined(b)
            \/ /\ combined(a) = combined(b)
               /\ ByteLen(index.phrases[a].origin) < ByteLen(index.phrases[b].origin)
        kept(p) == p \in constrained_phrases(index, query, heatmap)
    IN  StableSort(SelectSeq(heatmap.iter, kept), before)

\* The token of lowest distance among those within max_distance, whatever
\* its score.
valid_token_closest(query, phrase_heatmap, phrase) ==
    LET max_distance == unwrap_or(query.max_distance, UsizeMax)
        token(i) == phrase.tokens[i + 1]
        d(i) == distance(token(i), query.must)
        valid == {i \in DOMAIN phrase_heatmap.tokens : d(i) <= max_distance}
    IN  IF valid = {} THEN None
        ELSE LET i == CHOOSE j \in valid : \A l \in valid : d(j) <= d(l)
             IN  Some([token |-> token(i),
                       token_score |-> phrase_heatmap.tokens[i],
                       distance |-> d(i)])

\* find() without the test of the distance: the first token is taken.
valid_token_any_distance(query, phrase_heatmap, phrase) ==
    LET token(i) == phrase.tokens[i + 1]
        score(i) == phrase_heatmap.tokens[i]
        before(a, b) ==
            \/ score(a) > score(b)
            \/ score(a) = score(b) /\ ByteLen(token(a)) < ByteLen(token(b))
        i == StableSort(phrase_heatmap.iter, before)[1]
    IN  Some([token |-> token(i),
              token_score |-> score(i),
              distance |-> distance(token(i), query.must)])

\* The token find() returns for a phrase: the first, by score descending
\* then token length ascending, whose distance is within max_distance.
valid_token(query, phrase_heatmap, phrase) ==
    LET max_distance == unwrap_or(query.max_distance, UsizeMax)
        token(i) == phrase.tokens[i + 1]
        score(i) == phrase_heatmap.tokens[i]
        before(a, b) ==
            \/ score(a) > score(b)
            \/ score(a) = score(b) /\ ByteLen(token(a)) < ByteLen(token(b))
        sorted == StableSort(phrase_heatmap.iter, before)
        valid == {k \in 1..Len(sorted) :
                    distance(token(sorted[k]), query.must) <= max_distance}
    IN  IF valid = {} THEN None
        ELSE LET i == sorted[CHOOSE k \in valid : \A l \in valid : k <= l]
             IN  Some([token |-> token(i),
                       token_score |-> score(i),
                       distance |-> distance(token(i), query.must)])

below_cutoff(query, heatmap, phrase_heatmap) ==
    phrase_heatmap.total_score * CutoffDen < query.scan_cutoff * heatmap.max_score

\* The cutoff break without the test of best_distance.
cutoff_break_any_distance(best_distance, query, heatmap, phrase_heatmap) ==
    below_cutoff(query, heatmap, phrase_heatmap)

\* The break at the head of the loop: a result of distance 0 is in hand and
\* the phrase is below the cutoff.
cutoff_break(best_distance, query, heatmap, phrase_heatmap) ==
    best_distance = 0 /\ below_cutoff(query, heatmap, phrase_heatmap)

\* The break at the limit without the test of best_distance.
limit_break_any_distance(best_distance, results, limit) ==
    Len(results) >= limit

\* The break after a push: a result of distance 0 is in hand and the limit
\* is reached.
limit_break(best_distance, results, limit) ==
    best_distance = 0 /\ Len(results) >= limit

\* The loop over phrases_by_score, from the k-th phrase on: what was
\* scanned, what was pushed, and which break ended the loop.
RECURSIVE scan(_, _, _, _, _, _, _, _)
scan(index, query, heatmap, should, order, k, results, best_distance) ==
    LET limit == unwrap_or(query.limit, UsizeMax)
    IN  IF k > Len(order)
        THEN [order |-> order, scanned |-> k - 1, emitted |-> results,
              broke |-> "end"]
        ELSE LET phrase_heatmap == heatmap.phrases[order[k]]
                 phrase == index.phrases[order[k]]
                 found == valid_token(query, phrase_heatmap, phrase)
             IN  IF cutoff_break(best_distance, query, heatmap, phrase_heatmap)
                 THEN [order |-> order, scanned |-> k - 1, emitted |-> results,
                       broke |-> "cutoff"]
                 ELSE IF found = None
                 THEN scan(index, query, heatmap, should, order, k + 1,
                           results, best_distance)
                 ELSE LET pushed == Append(results,
                                [origin |-> phrase.origin,
                                 index |-> phrase.idx,
                                 score |-> found[1].token_score,
                                 should_score |-> should_score_of(should, order[k]),
                                 token |-> found[1].token,
                                 distance |-> found[1].distance])
                          best == Min(found[1].distance, best_distance)
                      IN  IF limit_break(best, pushed, limit)
                          THEN [order |-> order, scanned |-> k,
                                emitted |-> pushed, broke |-> "limit"]
                          ELSE scan(index, query, heatmap, should, order,
                                    k + 1, pushed, best)

\* a sorts strictly before b in the final order.
result_before(a, b) ==
    \/ a.distance < b.distance
    \/ /\ a.distance = b.distance
       /\ \/ a.score > b.score
          \/ /\ a.score = b.score
             /\ \/ a.should_score > b.should_score
                \/ /\ a.should_score = b.should_score
                   /\ \/ ByteLen(a.origin) < ByteLen(b.origin)
                      \/ /\ ByteLen(a.origin) = ByteLen(b.origin)
                         /\ str_less(a.origin, b.origin)

\* No final sort: the results stay in the order of the scan.
sort_results_skipped(results) == results

sort_results(results) == StableSort(results, result_before)

\* No truncation.
truncate_skipped(results, limit) == results

truncate(results, limit) == take(results, limit)

final_results(query, scanned) ==
    [order |-> scanned.order, scanned |-> scanned.scanned,
     emitted |-> scanned.emitted, broke |-> scanned.broke,
     results |-> truncate(sort_results(scanned.emitted),
                          unwrap_or(query.limit, UsizeMax))]

filtered_results(index, query, heatmap, should) ==
    final_results(query,
                  scan(index, query, heatmap, should,
                       phrases_by_score(index, query, heatmap, should),
                       1, <<>>, UsizeMax))

(***************************************************************************)
(* Index::create_heatmap, Index::search and Index::cache_stats, run by one *)
(* thread from call to return.  The cache sits in a Mutex: a panic while   *)
(* the lock is held poisons it, and lock().unwrap() panics from then on.   *)
(* LruCache::put into a cache of capacity 0 is outside the crate's         *)
(* contract: it either stores nothing or panics.                           *)
(***************************************************************************)
with_cache(ix, stats, heatmaps) ==
    [ix EXCEPT !.cache = [stats |-> stats, heatmaps |-> heatmaps,
                          cap |-> ix.cache.cap]]

\* What put leaves of a miss: the Index, and the heatmap returned or the
\* panic.
put_heatmap(ix, missed, token, heatmap) ==
    LET cache == ix.cache
        inserted == [missed EXCEPT !.inserts = @ + 1]
    IN  IF cache.cap = 0
        THEN {[panic |-> FALSE,
               ix |-> with_cache(ix, inserted, cache.heatmaps),
               heatmap |-> Some(heatmap)],
              [panic |-> TRUE,
               ix |-> [with_cache(ix, missed, cache.heatmaps)
                           EXCEPT !.poisoned = TRUE],
               heatmap |-> None]}
        ELSE {[panic |-> FALSE,
               ix |-> with_cache(ix, inserted,
                                 lru_put(cache.heatmaps, cache.cap,
                                         token, heatmap)),
               heatmap |-> Some(heatmap)]}

create_heatmap(ix, token) ==
    IF ix.poisoned THEN {[panic |-> TRUE, ix |-> ix, heatmap |-> None]}
    ELSE
    LET cache == ix.cache
        got == lru_get(cache.heatmaps, token)
    IN  IF got.value # None
        THEN {[panic |-> FALSE,
               ix |-> with_cache(ix, [cache.stats EXCEPT !.hits = @ + 1],
                                 got.heatmaps),
               heatmap |-> got.value]}
        ELSE UNION {put_heatmap(ix, [cache.stats EXCEPT !.misses = @ + 1],
                                token, heatmap) :
                        heatmap \in build_heatmap(ix.index.db, token)}

NoTrace == [order |-> <<>>, scanned |-> 0, emitted |-> <<>>, broke |-> "none"]

\* Each outcome of search: the Index it leaves, the list returned (or the
\* panic), and what the scan went through.
search(ix, query) ==
    {IF made.panic
     THEN [ix |-> made.ix, panic |-> TRUE, results |-> <<>>, trace |-> NoTrace]
     ELSE LET heatmap == made.heatmap[1]
              should == should_scores(ix.index, heatmap, query.should,
                                      query.constraint)
              out == filtered_results(ix.index, query, heatmap, should)
          IN  [ix |-> made.ix, panic |-> FALSE, results |-> out.results,
               trace |-> [order |-> out.order, scanned |-> out.scanned,
                          emitted |-> out.emitted, broke |-> out.broke]]
     : made \in create_heatmap(ix, query.must)}

cache_stats(ix) ==
    [hits |-> ix.cache.stats.hits,
     misses |-> ix.cache.stats.misses,
     inserts |-> ix.cache.stats.inserts,
     size |-> Len(ix.cache.heatmaps)]

(***************************************************************************)
(* The inputs the model draws from.                                        *)
(***************************************************************************)
PhrasePool ==
    { <<"A", "b", "c">>,
      <<"a", "b", "c", " ", "a", "b">>,
      <<"a", "b", "c", "d", ",", "a", "b", "c">>,
      <<"a", "b", "d">> }

MustPool == { <<"a", "b", "c">>, <<"a", "b", "d">>, <<"a", "b", " ", "a", "b", "c">> }

ShouldPool == { <<>>, << <<"a", "b">> >> }

Ids == 1..MaxId

ConstraintIds == 1..MaxConstraint

CacheSizes == 0..MaxCacheArg

\* The queries of the lifecycle specification: the two single-token musts.
LifecycleInputs ==
    [must : { <<"a", "b", "c">>, <<"a", "b", "d">> },
     should : { <<>> },
     constraint : {None},
     limit : {None},
     max_distance : {Some(DefaultMaxDistance)},
     scan_cutoff : {DefaultScanCutoff}]

SearchInputs ==
    [must : MustPool,
     should : ShouldPool,
     constraint : Option(ConstraintIds),
     limit : Option(0..MaxLimit),
     max_distance : Option(0..MaxDist) \cup {Some(DefaultMaxDistance)},
     scan_cutoff : {0, DefaultScanCutoff, CutoffDen}]

(***************************************************************************)
(* State.  fuzzdex is the enum FuzzDex: the Indexer being built, or the    *)
(* Index made of it.  call is the last call made and ret what it returned; *)
(* trace is what the last search went through.  pool is the threads that   *)
(* search one Index at the same time: who holds the Mutex of the cache,    *)
(* the heap of Arc<Heatmap> allocations, and each thread's position.       *)
(***************************************************************************)
VARIABLES fuzzdex, call, ret, trace, pool

vars == <<fuzzdex, call, ret, trace, pool>>

Threads == 1..MaxThreads

IdleThread == [pc |-> "idle", query |-> None, handle |-> 0, content |-> None,
               ret |-> None]

\* No thread has called yet.  log is the history of the uses of the cache:
\* the key of each hit and of each insert, in their order.
NoPool == [held |-> {}, arcs |-> <<>>, calls |-> 0, log |-> <<>>,
           th |-> [t \in Threads |-> IdleThread]]

Building(indexer) == [variant |-> "Indexer", indexer |-> indexer]
Ready(ix) == [variant |-> "Index", ix |-> ix]

IsIndexer == fuzzdex.variant = "Indexer"
IsIndex == fuzzdex.variant = "Index"

\* The Indexer, which the Index keeps as its field index.
TheIndexer == IF IsIndexer THEN fuzzdex.indexer ELSE fuzzdex.ix.index

Ok(value) == [kind |-> "Ok", error |-> "", value |-> value]
Err(error) == [kind |-> "Err", error |-> error, value |-> <<>>]
Panic == [kind |-> "Panic", error |-> "", value |-> <<>>]

Init ==
    /\ fuzzdex = Building(Indexer_new)
    /\ call = [api |-> "core", op |-> "new"]
    /\ ret = Ok(<<>>)
    /\ trace = NoTrace
    /\ pool = NoPool

(***************************************************************************)
(* The library, called directly.  The types allow add_phrase and finish    *)
(* on an Indexer only (finish consumes it), search and cache_stats on an   *)
(* Index only.                                                             *)
(***************************************************************************)
Indexer_add_phrase(phrase, phrase_idx, constraints) ==
    /\ IsIndexer
    /\ LET added == add_phrase(fuzzdex.indexer, phrase, phrase_idx, constraints)
       IN  /\ fuzzdex' = Building(added.indexer)
           /\ ret' = IF added.result = "Ok" THEN Ok(<<>>) ELSE Err("DuplicateId")
    /\ call' = [api |-> "core", op |-> "add_phrase", phrase |-> phrase,
                phrase_idx |-> phrase_idx, constraints |-> constraints]
    /\ trace' = NoTrace
    /\ UNCHANGED pool

Indexer_finish_with_cache(cache_size) ==
    /\ IsIndexer
    /\ fuzzdex' = Ready(finish_with_cache(fuzzdex.indexer, cache_size))
    /\ ret' = Ok(<<>>)
    /\ call' = [api |-> "core", op |-> "finish_with_cache",
                cache_size |-> Some(cache_size)]
    /\ trace' = NoTrace
    /\ UNCHANGED pool

Indexer_finish ==
    /\ IsIndexer
    /\ fuzzdex' = Ready(finish(fuzzdex.indexer))
    /\ ret' = Ok(<<>>)
    /\ call' = [api |-> "core", op |-> "finish", cache_size |-> None]
    /\ trace' = NoTrace
    /\ UNCHANGED pool

Lookups == IF IsIndex
           THEN fuzzdex.ix.cache.stats.hits + fuzzdex.ix.cache.stats.misses
           ELSE 0

with_options(query, in, scan_cutoff) ==
    [query EXCEPT !.constraint = in.constraint,
                  !.max_distance = in.max_distance,
                  !.limit = in.limit,
                  !.scan_cutoff = scan_cutoff]

do_search(api, in, query) ==
    \E out \in search(fuzzdex.ix, query) :
        /\ fuzzdex' = Ready(out.ix)
        /\ ret' = IF out.panic THEN Panic ELSE Ok(out.results)
        /\ trace' = out.trace
        /\ UNCHANGED pool
        /\ call' = [api |-> api, op |-> "search", in |-> in, query |-> query]

Index_search(in) ==
    /\ IsIndex
    /\ Lookups < MaxSearches
    /\ \E made \in Query_new(in.must, in.should) :
            do_search("core", in, with_options(made, in, in.scan_cutoff))

Index_cache_stats ==
    /\ IsIndex
    /\ ret' = IF fuzzdex.ix.poisoned THEN Panic ELSE Ok(cache_stats(fuzzdex.ix))
    /\ call' = [api |-> "core", op |-> "cache_stats"]
    /\ trace' = NoTrace
    /\ UNCHANGED pool
    /\ UNCHANGED fuzzdex

(***************************************************************************)
(* The Python binding, PyFuzzDex.                                          *)
(***************************************************************************)
PyDefaultCacheSize == 10000

Py_add_phrase(phrase, phrase_idx, constraints) ==
    /\ LET optional == IF constraints = {} THEN None ELSE Some(constraints)
       IN  IF IsIndexer
           THEN LET added == add_phrase(fuzzdex.indexer, phrase, phrase_idx,
                                        optional)
                IN  /\ fuzzdex' = Building(added.indexer)
                    /\ ret' = IF added.result = "Ok" THEN Ok(<<>>)
                              ELSE Err("Duplicate phrase index.")
           ELSE /\ ret' = Err("Index is already finished.")
                /\ UNCHANGED fuzzdex
    /\ call' = [api |-> "py", op |-> "add_phrase", phrase |-> phrase,
                phrase_idx |-> phrase_idx, constraints |-> constraints]
    /\ trace' = NoTrace
    /\ UNCHANGED pool

\* finish that does not look at the variant: an Index is frozen again.
Py_finish_again(cache_size) ==
    /\ LET size == unwrap_or(cache_size, PyDefaultCacheSize)
       IN  IF size = 0
           THEN /\ ret' = Err("Cache size must be at least 1")
                /\ UNCHANGED fuzzdex
           ELSE /\ fuzzdex' = Ready(finish_with_cache(TheIndexer, size))
                /\ ret' = Ok(<<>>)
    /\ call' = [api |-> "py", op |-> "finish", cache_size |-> cache_size]
    /\ trace' = NoTrace
    /\ UNCHANGED pool

Py_finish(cache_size) ==
    /\ LET size == unwrap_or(cache_size, PyDefaultCacheSize)
       IN  IF size = 0
           THEN /\ ret' = Err("Cache size must be at least 1")
                /\ UNCHANGED fuzzdex
           ELSE IF IsIndexer
           THEN /\ fuzzdex' = Ready(finish_with_cache(fuzzdex.indexer, size))
                /\ ret' = Ok(<<>>)
           ELSE /\ ret' = Err("Index is already finished.")
                /\ UNCHANGED fuzzdex
    /\ call' = [api |-> "py", op |-> "finish", cache_size |-> cache_size]
    /\ trace' = NoTrace
    /\ UNCHANGED pool

\* cache_stats that answers for an Indexer too, with counters of zero.
Py_cache_stats_unchecked ==
    /\ IF IsIndexer
       THEN ret' = Ok([hits |-> 0, misses |-> 0, inserts |-> 0, size |-> 0])
       ELSE ret' = IF fuzzdex.ix.poisoned THEN Panic
                   ELSE Ok(cache_stats(fuzzdex.ix))
    /\ call' = [api |-> "py", op |-> "cache_stats"]
    /\ trace' = NoTrace
    /\ UNCHANGED pool
    /\ UNCHANGED fuzzdex

Py_cache_stats ==
    /\ IF IsIndexer
       THEN ret' = Err("Index is not yet finished.")
       ELSE ret' = IF fuzzdex.ix.poisoned THEN Panic
                   ELSE Ok(cache_stats(fuzzdex.ix))
    /\ call' = [api |-> "py", op |-> "cache_stats"]
    /\ trace' = NoTrace
    /\ UNCHANGED pool
    /\ UNCHANGED fuzzdex

Py_search(in) ==
    IF IsIndexer
    THEN /\ ret' = Err("Index is not yet finished.")
         /\ call' = [api |-> "py", op |-> "search", in |-> in]
         /\ trace' = NoTrace
         /\ UNCHANGED pool
         /\ UNCHANGED fuzzdex
    ELSE /\ Lookups < MaxSearches
         /\ \E made \in Query_new(in.must, in.should) :
                do_search("py", in,
                          with_options(made, in, in.scan_cutoff))

Next ==
    \/ \E phrase \in PhrasePool, phrase_idx \in Ids,
          constraints \in Option(SUBSET ConstraintIds) :
            Indexer_add_phrase(phrase, phrase_idx, constraints)
    \/ \E cache_size \in CacheSizes : Indexer_finish_with_cache(cache_size)
    \/ Indexer_finish
    \/ \E in \in LifecycleInputs : Index_search(in)
    \/ Index_cache_stats
    \/ \E phrase \in PhrasePool, phrase_idx \in Ids,
          constraints \in SUBSET ConstraintIds :
            Py_add_phrase(phrase, phrase_idx, constraints)
    \/ \E cache_size \in Option(CacheSizes) : Py_finish(cache_size)
    \/ Py_cache_stats
    \/ \E in \in LifecycleInputs : Py_search(in)

Spec == Init /\ [][Next]_vars

(***************************************************************************)
(* One search, with every option, on every Index that add_phrase and       *)
(* finish can build from the pool.                                         *)
(***************************************************************************)
RECURSIVE Indexers(_)
Indexers(n) ==
    IF n = 0 THEN {Indexer_new}
    ELSE LET built == Indexers(n - 1)
         IN  built \cup
             {add_phrase(indexer, phrase, phrase_idx, constraints).indexer :
                indexer \in built, phrase \in PhrasePool, phrase_idx \in Ids,
                constraints \in Option(SUBSET ConstraintIds)}

InitSearch ==
    /\ \E indexer \in Indexers(MaxId) : fuzzdex = Ready(finish(indexer))
    /\ call = [api |-> "core", op |-> "finish", cache_size |-> None]
    /\ ret = Ok(<<>>)
    /\ trace = NoTrace
    /\ pool = NoPool

NextSearch ==
    /\ Lookups = 0
    /\ \E in \in SearchInputs : Index_search(in)

SpecSearch == InitSearch /\ [][NextSearch]_vars

(***************************************************************************)
(* One search with the default cache, on an Index of up to MaxScanPhrases  *)
(* phrases that all hold the must token or a token close to it, some with  *)
(* the should token as well: the scan has candidates of distance 0 and of  *)
(* distance 1, and candidates whose should-scores and must scores rank     *)
(* them differently.                                                       *)
(***************************************************************************)
ScanPhrases ==
    { <<"a", "b", "c">>,
      <<"a", "b", "c", " ", "x">>,
      <<"a", "b", "c", "a", "b", "c", " ", "a", "b", "c", "a", "b", "c">>,
      <<"a", "b", "c", "d", " ", "a", "b", "c", "d">>,
      <<"a", "b", "c", "c", " ", "a", "b", "c">>,
      <<"a", "b", "d", " ", "x">> }

RECURSIVE ScanIndexers(_)
ScanIndexers(n) ==
    IF n = 0 THEN {Indexer_new}
    ELSE LET built == ScanIndexers(n - 1)
         IN  built \cup
             {add_phrase(indexer, phrase, Cardinality(DOMAIN indexer.phrases) + 1,
                         None).indexer :
                indexer \in built, phrase \in ScanPhrases}

ScanInputs ==
    [must : { <<"a", "b", "c">> },
     should : { <<>>, << <<"x">> >> },
     constraint : {None},
     limit : {None, Some(1)},
     max_distance : {Some(DefaultMaxDistance)},
     scan_cutoff : {DefaultScanCutoff, CutoffDen}]

InitScan ==
    /\ \E indexer \in ScanIndexers(MaxScanPhrases) :
            fuzzdex = Ready(finish(indexer))
    /\ call = [api |-> "core", op |-> "finish", cache_size |-> None]
    /\ ret = Ok(<<>>)
    /\ trace = NoTrace
    /\ pool = NoPool

NextScan ==
    /\ Lookups = 0
    /\ \E in \in ScanInputs : Index_search(in)

SpecScan == InitScan /\ [][NextScan]_vars

(***************************************************************************)
(* One search with should tokens of five and seven graphemes, which have   *)
(* five trigrams, on an Index of up to MaxShouldPhrases phrases that hold  *)
(* the must token and tokens made of the should tokens' trigrams.          *)
(***************************************************************************)
ShouldPhrases ==
    { <<"a", "b", "c">>,
      <<"a", "b", "c", " ", "b", "c", "b">>,
      <<"a", "b", "c", " ", "b", "c", "a", " ", "c", "a", "b">>,
      <<"b", "c", "a", " ", "b", "c", "b">> }

RECURSIVE ShouldIndexers(_)
ShouldIndexers(n) ==
    IF n = 0 THEN {Indexer_new}
    ELSE LET built == ShouldIndexers(n - 1)
         IN  built \cup
             {add_phrase(indexer, phrase, Cardinality(DOMAIN indexer.phrases) + 1,
                         constraints).indexer :
                indexer \in built, phrase \in ShouldPhrases,
                constraints \in {None, Some({1})}}

ShouldInputs ==
    [must : { <<"a", "b", "c">> },
     should : { << <<"a", "b", "c", "a", "b", "c", "a">> >>,
                << <<"a", "b", "c", "a", "b", "c", "b">> >>,
                << <<"a", "b", "c", "b", "c">>, <<"b", "c", "a">> >> },
     constraint : Option({1}),
     limit : {None},
     max_distance : {Some(DefaultMaxDistance)},
     scan_cutoff : {DefaultScanCutoff}]

InitShould ==
    /\ \E indexer \in ShouldIndexers(MaxShouldPhrases) :
            fuzzdex = Ready(finish(indexer))
    /\ call = [api |-> "core", op |-> "finish", cache_size |-> None]
    /\ ret = Ok(<<>>)
    /\ trace = NoTrace
    /\ pool = NoPool

NextShould ==
    /\ Lookups = 0
    /\ \E in \in ShouldInputs : Index_search(in)

SpecShould == InitShould /\ [][NextShould]_vars

(***************************************************************************)
(* Searches whose must string is what the caller typed: with a capital,    *)
(* with a separator before or after the token, or empty.  The tokenizer    *)
(* finds at most one token in each.                                        *)
(***************************************************************************)
RawPhrases ==
    { <<"a", "b", "c">>,
      <<"A", "b", "c", " ", "d">>,
      <<"a", "b", "d">> }

RECURSIVE RawIndexers(_)
RawIndexers(n) ==
    IF n = 0 THEN {Indexer_new}
    ELSE LET built == RawIndexers(n - 1)
         IN  built \cup
             {add_phrase(indexer, phrase, Cardinality(DOMAIN indexer.phrases) + 1,
                         None).indexer :
                indexer \in built, phrase \in RawPhrases}

RawInputs ==
    [must : { <<"a", "b", "c">>, <<"A", "b", "c">>, <<"a", "b", "c", " ">>,
              <<",", "a", "b", "c">>, <<>> },
     should : { <<>>, << <<"A", "b", "d">> >> },
     constraint : {None},
     limit : {None},
     max_distance : {Some(DefaultMaxDistance)},
     scan_cutoff : {DefaultScanCutoff}]

InitRaw ==
    /\ \E indexer \in RawIndexers(MaxRawPhrases) :
            fuzzdex = Ready(finish(indexer))
    /\ call = [api |-> "core", op |-> "finish", cache_size |-> None]
    /\ ret = Ok(<<>>)
    /\ trace = NoTrace
    /\ pool = NoPool

NextRaw == \E in \in RawInputs : Index_search(in)

SpecRaw == InitRaw /\ [][NextRaw]_vars

(***************************************************************************)
(* Threads that search one Index at the same time.  A step is what a       *)
(* thread does between two points where another thread can run and see a   *)
(* difference: taking the lock, the block that holds it, the work done     *)
(* without it.  An Arc<Heatmap> is an entry of the heap pool.arcs: its     *)
(* heatmap and its count of strong references; the cache holds the ids.    *)
(***************************************************************************)
arc_new_id(arcs) ==
    CHOOSE i \in 1..(Cardinality(DOMAIN arcs) + 1) :
        i \notin DOMAIN arcs /\ \A j \in 1..(i - 1) : j \in DOMAIN arcs

arc_new(arcs, id, heatmap) ==
    [i \in DOMAIN arcs \cup {id} |->
        IF i = id THEN [heatmap |-> heatmap, strong |-> 1] ELSE arcs[i]]

arc_clone(arcs, id) == [arcs EXCEPT ![id].strong = @ + 1]

\* drop: the allocation is freed with its last reference.
arc_drop(arcs, id) ==
    IF arcs[id].strong = 1
    THEN [i \in DOMAIN arcs \ {id} |-> arcs[i]]
    ELSE [arcs EXCEPT ![id].strong = @ - 1]

\* The ids the cache held in old and no longer holds in new.
dropped_by_put(old, new) ==
    {old[i].value : i \in 1..Len(old)} \ {new[i].value : i \in 1..Len(new)}

arc_drop_all(arcs, ids) ==
    IF ids = {} THEN arcs ELSE arc_drop(arcs, CHOOSE id \in ids : TRUE)

ThreadMusts == { <<"a", "b", "c">>, <<"a", "b", "d">>, <<"x">> }

ThreadInputs ==
    [must : ThreadMusts,
     should : { <<>> },
     constraint : {None},
     limit : {None},
     max_distance : {Some(DefaultMaxDistance)},
     scan_cutoff : {DefaultScanCutoff}]

\* Two phrases, of the same text or of two texts.
ThreadIndexers ==
    {add_phrase(add_phrase(Indexer_new, <<"a", "b", "d">>, 1, None).indexer,
                phrase, 2, None).indexer :
        phrase \in { <<"a", "b", "d">>, <<"a", "b", "c">> }}

InitThreads ==
    /\ \E indexer \in ThreadIndexers, cache_size \in 0..MaxCapacity :
            /\ fuzzdex = Ready(finish_with_cache(indexer, cache_size))
            /\ call = [api |-> "core", op |-> "finish_with_cache",
                       cache_size |-> Some(cache_size)]
    /\ ret = Ok(<<>>)
    /\ trace = NoTrace
    /\ pool = NoPool

\* The call of thread t ends: it returned a list or it panicked.
thread_returns(t, arcs, result) ==
    /\ pool' = [pool EXCEPT !.held = @ \ {t},
                            !.arcs = arcs,
                            !.th[t] = [@ EXCEPT !.pc = "idle", !.handle = 0,
                                                !.content = None,
                                                !.ret = Some(result)]]
    /\ UNCHANGED <<call, ret, trace>>

\* search is called.
Thread_search(t, in) ==
    /\ IsIndex
    /\ pool.th[t].pc = "idle"
    /\ \E made \in Query_new(in.must, in.should) :
        pool' = [pool EXCEPT
                    !.calls = @ + 1,
                    !.th[t] = [IdleThread EXCEPT
                                !.pc = "lock_get",
                                !.query = Some(with_options(made, in,
                                                            in.scan_cutoff))]]
    /\ UNCHANGED <<fuzzdex, call, ret, trace>>

\* self.cache.lock().unwrap(): waits until no thread holds the lock, and
\* panics if a thread panicked while it held it.
Thread_lock(t) ==
    LET me == pool.th[t]
    IN  /\ me.pc \in {"lock_get", "lock_put"}
        /\ pool.held = {}
        /\ IF fuzzdex.ix.poisoned
           THEN thread_returns(t, IF me.handle = 0 THEN pool.arcs
                                  ELSE arc_drop(pool.arcs, me.handle),
                               Panic)
           ELSE /\ pool' = [pool EXCEPT
                                !.held = {t},
                                !.th[t].pc = IF me.pc = "lock_get" THEN "get"
                                             ELSE "put"]
                /\ UNCHANGED <<call, ret, trace>>
        /\ UNCHANGED fuzzdex

\* The lookup that hands out the cache's own reference, without a clone.
Thread_get_borrowed(t) ==
    LET me == pool.th[t]
        ix == fuzzdex.ix
        key == me.query[1].must
        got == lru_get(ix.cache.heatmaps, key)
    IN  /\ me.pc = "get"
        /\ IF got.value # None
           THEN /\ fuzzdex' = Ready(with_cache(ix,
                                [ix.cache.stats EXCEPT !.hits = @ + 1],
                                got.heatmaps))
                /\ pool' = [pool EXCEPT
                                !.held = {},
                                !.log = Append(@, key),
                                !.th[t] = [me EXCEPT
                                    !.pc = "scan",
                                    !.handle = got.value[1],
                                    !.content =
                                        Some(pool.arcs[got.value[1]].heatmap)]]
           ELSE /\ fuzzdex' = Ready(with_cache(ix,
                                [ix.cache.stats EXCEPT !.misses = @ + 1],
                                ix.cache.heatmaps))
                /\ pool' = [pool EXCEPT !.held = {}, !.th[t].pc = "build"]
        /\ UNCHANGED <<call, ret, trace>>

\* The lookup that keeps the lock after a miss.
Thread_get_keeps_lock(t) ==
    LET me == pool.th[t]
        ix == fuzzdex.ix
        key == me.query[1].must
        got == lru_get(ix.cache.heatmaps, key)
    IN  /\ me.pc = "get"
        /\ IF got.value # None
           THEN /\ fuzzdex' = Ready(with_cache(ix,
                                [ix.cache.stats EXCEPT !.hits = @ + 1],
                                got.heatmaps))
                /\ pool' = [pool EXCEPT
                                !.held = {},
                                !.arcs = arc_clone(@, got.value[1]),
                                !.log = Append(@, key),
                                !.th[t] = [me EXCEPT
                                    !.pc = "scan",
                                    !.handle = got.value[1],
                                    !.content =
                                        Some(pool.arcs[got.value[1]].heatmap)]]
           ELSE /\ fuzzdex' = Ready(with_cache(ix,
                                [ix.cache.stats EXCEPT !.misses = @ + 1],
                                ix.cache.heatmaps))
                /\ pool' = [pool EXCEPT !.th[t].pc = "build"]
        /\ UNCHANGED <<call, ret, trace>>

\* The first block of create_heatmap, with the lock: get, and the counter
\* of hits or of misses; the lock is released at the end of the block.
Thread_get(t) ==
    LET me == pool.th[t]
        ix == fuzzdex.ix
        key == me.query[1].must
        got == lru_get(ix.cache.heatmaps, key)
    IN  /\ me.pc = "get"
        /\ IF got.value # None
           THEN /\ fuzzdex' = Ready(with_cache(ix,
                                [ix.cache.stats EXCEPT !.hits = @ + 1],
                                got.heatmaps))
                /\ pool' = [pool EXCEPT
                                !.held = {},
                                !.arcs = arc_clone(@, got.value[1]),
                                !.log = Append(@, key),
                                !.th[t] = [me EXCEPT
                                    !.pc = "scan",
                                    !.handle = got.value[1],
                                    !.content =
                                        Some(pool.arcs[got.value[1]].heatmap)]]
           ELSE /\ fuzzdex' = Ready(with_cache(ix,
                                [ix.cache.stats EXCEPT !.misses = @ + 1],
                                ix.cache.heatmaps))
                /\ pool' = [pool EXCEPT !.held = {}, !.th[t].pc = "build"]
        /\ UNCHANGED <<call, ret, trace>>

\* The inverted indexes and the queries of the threads.
ThreadIndexes ==
    {finish_with_cache(indexer, 0).index : indexer \in ThreadIndexers}

ThreadQueries ==
    UNION {{with_options(made, in, in.scan_cutoff) :
                made \in Query_new(in.must, in.should)} : in \in ThreadInputs}

\* Heatmap::new and the loop of add_phrase, tabulated: the heatmaps a miss
\* can build for an index and a must token, one for each iteration order.
created_heatmaps ==
    [index \in ThreadIndexes |->
        [token \in ThreadMusts |-> build_heatmap(index.db, token)]]

\* should_scores and filtered_results, tabulated: the list search returns
\* for an index, a query and a heatmap of the query's must token.
search_results ==
    [index \in ThreadIndexes |->
        [query \in ThreadQueries |->
            [heatmap \in created_heatmaps[index][query.must] |->
                filtered_results(index, query, heatmap,
                                 should_scores(index, heatmap, query.should,
                                               query.constraint)).results]]]

\* The heatmap is built, without the lock, and wrapped in an Arc.
Thread_heatmap(t) ==
    LET me == pool.th[t]
    IN  /\ me.pc = "build"
        /\ \E heatmap \in created_heatmaps[fuzzdex.ix.index][me.query[1].must] :
            LET id == arc_new_id(pool.arcs)
            IN  pool' = [pool EXCEPT
                            !.arcs = arc_new(@, id, heatmap),
                            !.th[t] = [me EXCEPT !.pc = "lock_put",
                                                 !.handle = id,
                                                 !.content = Some(heatmap)]]
        /\ UNCHANGED <<fuzzdex, call, ret, trace>>

\* The second block, with the lock: put of a clone of the Arc, and the
\* counter of inserts.  The entry that put replaces or evicts is dropped.
Thread_put(t) ==
    LET me == pool.th[t]
        ix == fuzzdex.ix
        cache == ix.cache
        key == me.query[1].must
        inserted == [cache.stats EXCEPT !.inserts = @ + 1]
        stored == lru_put(cache.heatmaps, cache.cap, key, me.handle)
    IN  /\ me.pc = "put"
        /\ IF cache.cap = 0
           THEN \/ /\ fuzzdex' = Ready(with_cache(ix, inserted, cache.heatmaps))
                   /\ pool' = [pool EXCEPT !.held = {}, !.th[t].pc = "scan"]
                   /\ UNCHANGED <<call, ret, trace>>
                \/ /\ fuzzdex' = Ready([ix EXCEPT !.poisoned = TRUE])
                   /\ thread_returns(t, arc_drop(pool.arcs, me.handle), Panic)
           ELSE /\ fuzzdex' = Ready(with_cache(ix, inserted, stored))
                /\ pool' = [pool EXCEPT
                                !.held = {},
                                !.arcs = arc_drop_all(
                                            arc_clone(@, me.handle),
                                            dropped_by_put(cache.heatmaps,
                                                           stored)),
                                !.log = Append(@, key),
                                !.th[t].pc = "scan"]
                /\ UNCHANGED <<call, ret, trace>>

\* The list search returns to thread t, from the heatmap behind its handle.
thread_results(t) ==
    search_results[fuzzdex.ix.index][pool.th[t].query[1]]
                  [pool.arcs[pool.th[t].handle].heatmap]

\* The scan of search; the handle is dropped when search returns.
Thread_results(t) ==
    /\ pool.th[t].pc = "scan"
    /\ thread_returns(t, arc_drop(pool.arcs, pool.th[t].handle),
                      Ok(thread_results(t)))
    /\ UNCHANGED fuzzdex

ThreadStep(t) ==
    \/ Thread_lock(t)
    \/ Thread_get(t)
    \/ Thread_heatmap(t)
    \/ Thread_put(t)
    \/ Thread_results(t)

NextThreads ==
    \/ /\ pool.calls < MaxCalls
       /\ \E t \in Threads, in \in ThreadInputs : Thread_search(t, in)
    \/ \E t \in Threads : ThreadStep(t)

SpecThreads == InitThreads /\ [][NextThreads]_vars

\* Every thread that can take a step takes one in the end.
SpecThreadsFair == SpecThreads /\ \A t \in Threads : WF_vars(ThreadStep(t))

(***************************************************************************)
(* Sequential use: one thread, one search after the other.                 *)
(***************************************************************************)
NextSequential ==
    \/ /\ pool.calls < MaxSeqCalls
       /\ \E in \in ThreadInputs : Thread_search(1, in)
    \/ ThreadStep(1)

SpecSequential == InitThreads /\ [][NextSequential]_vars

(***************************************************************************)
(* Query::new on its own: the must is one to MaxMustTokens tokens joined   *)
(* by spaces, one call in a behaviour.                                     *)
(***************************************************************************)
QueryTokens ==
    { <<"a">>, <<"a", "b">>, <<"A", "b">>, <<"b", "c">>, <<"a", "b", "c">>,
      <<"l/", "l/">> }

RECURSIVE join(_)
join(tokens) ==
    IF Len(tokens) = 1 THEN tokens[1]
    ELSE tokens[1] \o <<" ">> \o join(Tail(tokens))

QueryMusts ==
    {join(tokens) : tokens \in UNION {[1..n -> QueryTokens] :
                                        n \in 1..MaxMustTokens}}

Call_Query_new(must, should) ==
    /\ call.op = "new"
    /\ \E made \in Query_new(must, should) :
        /\ call' = [api |-> "core", op |-> "Query_new",
                    must |-> must, should |-> should]
        /\ ret' = Ok(made)
    /\ UNCHANGED <<fuzzdex, trace, pool>>

NextQuery == \E must \in QueryMusts, should \in ShouldPool :
                Call_Query_new(must, should)

SpecQuery == Init /\ [][NextQuery]_vars

(***************************************************************************)
(* trigramize on its own, as the Python module exposes it: a token of up   *)
(* to MaxTokenLen characters, one call in a behaviour.                     *)
(***************************************************************************)
TokenChars == {"a", "b", "l/", "sz", "o'"}

TrigramTokens == UNION {[1..n -> TokenChars] : n \in 0..MaxTokenLen}

Py_trigramize(token) ==
    /\ call.op = "new"
    /\ call' = [api |-> "py", op |-> "trigramize", token |-> token]
    /\ ret' = Ok(trigramize(token))
    /\ UNCHANGED <<fuzzdex, trace, pool>>

NextTrigramize == \E token \in TrigramTokens : Py_trigramize(token)

SpecTrigramize == Init /\ [][NextTrigramize]_vars

(***************************************************************************)
(* Properties.                                                             *)
(***************************************************************************)
Phrases == TheIndexer.phrases

LastIs(op) == call.op = op

Searched == LastIs("search") /\ ret.kind = "Ok" /\ IsIndex

\* C1: an add_phrase whose phrase_idx is already present returns DuplicateId
\* and leaves the trigram db and the phrase table as they were; no step ever
\* changes the entry stored under an id, and every search result carries the
\* origin stored under its index.
C1_DuplicateIdIsNoOp ==
    [][/\ (IsIndexer /\ call'.op = "add_phrase"
                /\ call'.phrase_idx \in DOMAIN Phrases)
            => /\ ret'.kind = "Err"
               /\ ret'.error \in {"DuplicateId", "Duplicate phrase index."}
               /\ fuzzdex' = fuzzdex
       /\ \A i \in DOMAIN Phrases :
            i \in DOMAIN Phrases' /\ Phrases'[i] = Phrases[i]
       /\ (call'.op = "search" /\ ret'.kind = "Ok")
            => \A k \in DOMAIN ret'.value :
                    /\ ret'.value[k].index \in DOMAIN Phrases
                    /\ ret'.value[k].origin = Phrases[ret'.value[k].index].origin
      ]_vars

\* A duplicate add_phrase, with another phrase than the stored one, was refused.
C1_Witness ==
    /\ IsIndexer
    /\ LastIs("add_phrase")
    /\ ret.kind = "Err"
    /\ Phrases[call.phrase_idx].origin # call.phrase

\* C2: once finish has succeeded the object stays an Index, and every later
\* add_phrase and finish fails with an error and changes nothing.
C2_FinishIsOneWay ==
    [][IsIndex =>
        /\ IsIndex'
        /\ call'.op \in {"add_phrase", "finish", "finish_with_cache"}
            => /\ ret'.kind = "Err"
               /\ fuzzdex' = fuzzdex
      ]_vars

\* add_phrase or finish was refused on an Index that has phrases and has
\* been searched.
C2_Witness ==
    /\ IsIndex
    /\ call.op \in {"add_phrase", "finish"}
    /\ ret.error = "Index is already finished."
    /\ DOMAIN Phrases # {}
    /\ Lookups > 0

\* C3: while the object is an Indexer, search and cache_stats fail with an
\* error, return nothing, and change neither the state nor the phrases.
C3_NoQueryWhileBuilding ==
    [][(IsIndexer /\ call'.op \in {"search", "cache_stats"})
            => /\ ret'.kind = "Err"
               /\ ret'.value = <<>>
               /\ fuzzdex' = fuzzdex
      ]_vars

\* search or cache_stats was refused on an Indexer that holds a phrase.
C3_Witness ==
    /\ IsIndexer
    /\ call.op \in {"search", "cache_stats"}
    /\ ret.error = "Index is not yet finished."
    /\ DOMAIN Phrases # {}

\* C4: finish or finish_with_cache with cache_size 0 fails with an error and
\* leaves the Indexer as it was, still building.
C4_ZeroCacheSizeRejected ==
    [][(IsIndexer /\ call'.op \in {"finish", "finish_with_cache"}
                  /\ call'.cache_size = Some(0))
            => /\ ret'.kind = "Err"
               /\ fuzzdex' = fuzzdex
      ]_vars

\* C5: a finish called without a cache size gives a cache of capacity 2000,
\* whichever entry point it came through.
C5_DefaultCacheSizeIs2000 ==
    (IsIndex /\ LastIs("finish") /\ call.cache_size = None /\ ret.kind = "Ok")
        => fuzzdex.ix.cache.cap = 2000

\* The heatmap of the last query's must token.
MustHeatmap == compute_heatmap(TheIndexer.db, call.query.must)

Results == ret.value

\* C6: every result's distance is the edit distance between its token, a
\* token of its phrase, and query.must, and is at most query.max_distance;
\* with max_distance none every scanned phrase gives a result.
C6_DistanceWithinMax ==
    Searched =>
        /\ \A k \in DOMAIN Results :
            LET r == Results[k]
            IN  /\ \E t \in DOMAIN Phrases[r.index].tokens :
                        Phrases[r.index].tokens[t] = r.token
                /\ r.distance = distance(r.token, call.query.must)
                /\ call.query.max_distance # None
                        => r.distance <= call.query.max_distance[1]
        /\ call.query.max_distance = None
                => Len(trace.emitted) = trace.scanned

\* A search with a max_distance returned a result and dropped a scanned
\* phrase, none of whose tokens was close enough.
C6_Witness ==
    /\ Searched
    /\ call.query.max_distance # None
    /\ Results # <<>>
    /\ Len(trace.emitted) < trace.scanned

\* C7: no two results of one search carry the same index.
C7_IndexUnique ==
    Searched =>
        \A i, j \in DOMAIN Results :
            i # j => Results[i].index # Results[j].index

\* A phrase was returned of which two tokens are in the heatmap and within
\* max_distance of the must token.
C7_Witness ==
    /\ Searched
    /\ \E k \in DOMAIN Results :
        LET p == Results[k].index
            heat == MustHeatmap.phrases[p]
        IN  Cardinality(
                {i \in DOMAIN heat.tokens :
                    distance(Phrases[p].tokens[i + 1], call.query.must)
                        <= unwrap_or(call.query.max_distance, UsizeMax)}) >= 2

\* The final key of a does not come after the final key of b.
KeyNotAfter(a, b) ==
    LET ka == <<a.distance, -a.score, -a.should_score, ByteLen(a.origin)>>
        kb == <<b.distance, -b.score, -b.should_score, ByteLen(b.origin)>>
        differ == {i \in 1..4 : ka[i] # kb[i]}
    IN  IF differ # {}
        THEN LET i == CHOOSE d \in differ : \A e \in differ : d <= e
             IN  ka[i] < kb[i]
        ELSE ~str_less(b.origin, a.origin)

\* C8: the returned list is sorted by (distance ASC, score DESC,
\* should_score DESC, origin length ASC, origin ASC): no result's key comes
\* after the key of the next one.
C8_SortedByFinalKey ==
    Searched =>
        \A k \in 1..(Len(Results) - 1) : KeyNotAfter(Results[k], Results[k + 1])

\* Two or more results were returned, in another order than the scan found
\* them in.
C8_Witness ==
    /\ Searched
    /\ Len(Results) >= 2
    /\ Len(Results) = Len(trace.emitted)
    /\ Results # trace.emitted

\* C9: with limit k at most k results are returned; with limit none every
\* result the scan emitted is returned.
C9_AtMostLimit ==
    Searched =>
        /\ call.query.limit # None => Len(Results) <= call.query.limit[1]
        /\ call.query.limit = None
            => /\ Len(Results) = Len(trace.emitted)
               /\ \A k \in DOMAIN trace.emitted :
                    \E j \in DOMAIN Results : Results[j] = trace.emitted[k]

\* A search with a limit of 1 or more emitted more results than the limit
\* and returned exactly limit of them.
C9_Witness ==
    /\ Searched
    /\ call.query.limit # None
    /\ call.query.limit[1] >= 1
    /\ Len(trace.emitted) > call.query.limit[1]
    /\ Len(Results) = call.query.limit[1]

\* C10: with constraint c every result's phrase has c among its
\* constraints; with constraint none every phrase of the heatmap is a
\* candidate of the scan.
C10_ConstraintRespected ==
    Searched =>
        /\ call.query.constraint # None
            => \A k \in DOMAIN Results :
                    call.query.constraint[1] \in Phrases[Results[k].index].constraints
        /\ call.query.constraint = None
            => {trace.order[k] : k \in DOMAIN trace.order}
                    = DOMAIN MustHeatmap.phrases

\* A constrained search returned a result while a phrase added with no
\* constraints was in the heatmap.
C10_Witness ==
    /\ Searched
    /\ call.query.constraint # None
    /\ Results # <<>>
    /\ \E p \in DOMAIN MustHeatmap.phrases : Phrases[p].constraints = {}

\* Thread t is in no call, and its last call returned a list.
Returned(t) ==
    /\ pool.th[t].pc = "idle"
    /\ pool.th[t].ret # None
    /\ pool.th[t].ret[1].kind = "Ok"

\* C11: two searches of one Index with equal queries return equal lists,
\* whether their heatmaps came from the cache or were built, and whatever
\* ran at the same time; stated for an Index whose cache has room.
C11_SearchIsDeterministic ==
    \A t1, t2 \in Threads :
        (/\ fuzzdex.ix.cache.cap > 0
         /\ Returned(t1) /\ Returned(t2)
         /\ pool.th[t1].query = pool.th[t2].query)
            => pool.th[t1].ret = pool.th[t2].ret

Stats == fuzzdex.ix.cache.stats

CachedKeys == {fuzzdex.ix.cache.heatmaps[i].key :
                    i \in 1..Len(fuzzdex.ix.cache.heatmaps)}

\* C12: in sequential use a search of a cached must token adds 1 to hits
\* and nothing else, a search of a token that is not cached adds 1 to
\* misses and 1 to inserts and nothing else (so the first search of a fresh
\* Index gives 0, 1, 1), and a search that repeats the must token of the
\* search just before it adds 1 to hits.
C12_CountersFollowHitOrMiss ==
    [][(IsIndex /\ call'.op = "search") =>
        LET hit == [Stats EXCEPT !.hits = @ + 1]
            miss == [Stats EXCEPT !.misses = @ + 1, !.inserts = @ + 1]
        IN  /\ Stats' = IF call'.query.must \in CachedKeys THEN hit ELSE miss
            /\ (call.op = "search" /\ call.query.must = call'.query.must)
                    => Stats' = hit
      ]_vars

\* C13: in every state, whatever the threads have done, the cache holds at
\* most cap heatmaps, no two of them under the same must token, and the size
\* cache_stats reports is the number of tokens cached.
C13_CacheWithinCapacity ==
    /\ Len(fuzzdex.ix.cache.heatmaps) <= fuzzdex.ix.cache.cap
    /\ Cardinality(CachedKeys) = Len(fuzzdex.ix.cache.heatmaps)
    /\ cache_stats(fuzzdex.ix).size = Cardinality(CachedKeys)

\* The cache is full, more heatmaps were inserted than it holds, and a
\* thread is in a search.
C13_Witness ==
    /\ fuzzdex.ix.cache.cap >= 1
    /\ Len(fuzzdex.ix.cache.heatmaps) = fuzzdex.ix.cache.cap
    /\ Stats.inserts > fuzzdex.ix.cache.cap
    /\ \E t \in Threads : pool.th[t].pc # "idle"

\* The place in the history of the last use (hit or insert) of key.
LastUse(log, key) ==
    CHOOSE i \in 1..Len(log) :
        log[i] = key /\ \A j \in (i + 1)..Len(log) : log[j] # key

\* C14: the entry a step removes from the cache is the one whose last use
\* is the oldest; and when a search of token t returns, on a cache of
\* capacity 1 or more with no other search in between, t is cached and, if
\* the cache holds another entry, one of them was last used before t.
C14_EvictionIsStrictLRU ==
    [][/\ \A gone \in CachedKeys \ CachedKeys' :
            \A kept \in CachedKeys :
                LastUse(pool.log, gone) <= LastUse(pool.log, kept)
       /\ \A t \in Threads :
            (/\ pool.th[t].pc = "scan"
             /\ pool'.th[t].pc = "idle"
             /\ fuzzdex.ix.cache.cap >= 1)
                => LET token == pool.th[t].query[1].must
                   IN  /\ token \in CachedKeys'
                       /\ \A other \in CachedKeys' \ {token} :
                            LastUse(pool'.log, other) < LastUse(pool'.log, token)
      ]_vars

\* Two tokens were inserted, the first was hit again, and the insert of a
\* third into the cache of capacity 2 removed the second.
C14_Witness ==
    /\ fuzzdex.ix.cache.cap = 2
    /\ Len(pool.log) = 4
    /\ pool.log[1] = pool.log[3]
    /\ pool.log[2] # pool.log[1]
    /\ pool.log[4] \notin {pool.log[1], pool.log[2]}
    /\ CachedKeys = {pool.log[1], pool.log[4]}

\* At most one thread holds the lock, and a thread holds it exactly while
\* it is in the block of the lookup or in the block of the insert.
LockDiscipline ==
    /\ Cardinality(pool.held) <= 1
    /\ \A t \in Threads :
        t \in pool.held <=> pool.th[t].pc \in {"get", "put"}

\* C15: with any number of threads in search, the lock of the cache is held
\* by one thread at most, and only in the lookup and in the insert: not
\* while a heatmap is built nor while results are scored and sorted, and
\* not by a thread that asks for it; and under fair scheduling every
\* search that starts comes to its end, no thread waits forever.
C15_LockOnlyAroundCache ==
    /\ []LockDiscipline
    /\ \A t \in Threads :
        (pool.th[t].pc # "idle") ~> (pool.th[t].pc = "idle")

\* A thread is in the block of the insert while another waits for the lock
\* and has a heatmap of its own to insert.
C15_Witness ==
    \E t1, t2 \in Threads :
        /\ pool.th[t1].pc = "put"
        /\ pool.th[t2].pc = "lock_put"
        /\ pool.held = {t1}

\* The Arcs the cache holds.
CachedArcs ==
    {fuzzdex.ix.cache.heatmaps[i].value :
        i \in 1..Len(fuzzdex.ix.cache.heatmaps)}

\* The handle of every thread that has one is a live Arc, and behind it is
\* the heatmap the thread obtained; the Arcs the cache holds are live too.
HandlesValid ==
    /\ CachedArcs \subseteq DOMAIN pool.arcs
    /\ \A t \in Threads :
        pool.th[t].handle # 0 =>
            /\ pool.th[t].handle \in DOMAIN pool.arcs
            /\ pool.th[t].content = Some(pool.arcs[pool.th[t].handle].heatmap)

\* No step changes the heatmap of an Arc that is in the cache or in the
\* hands of a thread.
ArcsImmutable ==
    \A id \in DOMAIN pool.arcs :
        (id \in CachedArcs \/ \E t \in Threads : pool.th[t].handle = id) =>
            (id \in DOMAIN pool'.arcs =>
                pool'.arcs[id].heatmap = pool.arcs[id].heatmap)

\* C16: a heatmap is not modified once it is in the cache, and a search
\* that obtained a handle reads the same heatmap until it returns, also
\* when the insert of another thread evicts or replaces the entry.
C16_HandlesOutliveEviction ==
    /\ []HandlesValid
    /\ [][ArcsImmutable]_vars

\* A thread scans with a handle whose entry the cache, of capacity 1 or
\* more, no longer holds: another thread's insert removed it.
C16_Witness ==
    \E t \in Threads :
        /\ fuzzdex.ix.cache.cap > 0
        /\ pool.th[t].pc = "scan"
        /\ pool.th[t].handle \notin CachedArcs
        /\ pool.th[t].handle \in DOMAIN pool.arcs

\* No trigram of the token is a key of the inverted index; so it is on the
\* Index made of an Indexer with no phrases.
NoTrigramIndexed(token) ==
    \A i \in 1..Len(trigramize(token)) :
        trigramize(token)[i] \notin DOMAIN fuzzdex.ix.index.db

\* C17: empty inputs give empty results, not errors.  On the Index made of
\* an Indexer with no phrases, and on any Index for a must token none of
\* whose trigrams is indexed, search returns the empty list, and a token
\* not in the cache counts one miss and one insert.
C17_EmptyInputsGiveEmptyResults ==
    [][(IsIndex /\ call'.op = "search"
            /\ (fuzzdex.ix.index.phrases = <<>>
                    \/ NoTrigramIndexed(call'.query.must))) =>
        /\ ret' = Ok(<<>>)
        /\ call'.query.must \notin CachedKeys =>
                Stats' = [Stats EXCEPT !.misses = @ + 1, !.inserts = @ + 1]
      ]_vars

\* The number of times token occurs in tokens.
RECURSIVE Occurrences(_, _)
Occurrences(token, tokens) ==
    IF tokens = <<>> THEN 0
    ELSE (IF Head(tokens) = token THEN 1 ELSE 0)
            + Occurrences(token, Tail(tokens))

\* C18: Query::new with a must of more than one token (tokenize with
\* min_length 1) makes must a token of maximal length, and makes should the
\* caller's list, in its order, followed by the other tokens: each token
\* of must is in must or in the added part as many times as it occurs, none
\* lost and none duplicated.  The length is String::len, a number of bytes.
C18_LongestTokenBecomesMust ==
    (call.op = "Query_new" /\ Len(tokenize(call.must, 1)) > 1) =>
        LET tokens == tokenize(call.must, 1)
            query == ret.value
            added == SubSeq(query.should, Len(call.should) + 1,
                            Len(query.should))
        IN  /\ \E i \in 1..Len(tokens) : query.must = tokens[i]
            /\ \A i \in 1..Len(tokens) :
                    ByteLen(query.must) >= ByteLen(tokens[i])
            /\ Len(query.should) = Len(call.should) + Len(tokens) - 1
            /\ SubSeq(query.should, 1, Len(call.should)) = call.should
            /\ \A i \in 1..Len(tokens) :
                    Occurrences(tokens[i], <<query.must>> \o added)
                        = Occurrences(tokens[i], tokens)

\* Query::new was called with a should token and a must of three tokens,
\* one of them twice and the first not the longest.
C18_Witness ==
    /\ call.op = "Query_new"
    /\ call.should # <<>>
    /\ LET tokens == tokenize(call.must, 1)
       IN  /\ Len(tokens) = 3
           /\ tokens[1] = tokens[2]
           /\ ByteLen(tokens[1]) < ByteLen(tokens[3])
           /\ ret.value.must = tokens[3]

\* The graphemes of the token trigramize was called with, after the
\* accents are stripped and the replacements made.
Graphemes == normalize(strip_accents(call.token))

\* The sliding trigrams of g, in source order.
Sliding(g) == [i \in 1..(Len(g) - 2) |-> <<g[i], g[i + 1], g[i + 2]>>]

\* C19: for a token of n graphemes after normalization, trigramize returns
\* nothing for n = 0; the one pseudo-trigram g0 and two spaces for n = 1;
\* the one pseudo-trigram g0 g1 and a space for n = 2; the n - 2 sliding
\* trigrams in source order for n = 3 and for n >= 6; and for n = 4 and
\* n = 5 the n - 2 sliding trigrams followed by g0 g1 g(n-1) and
\* g0 g(n-2) g(n-1).
C19_TrigramShapes ==
    call.op = "trigramize" =>
        LET g == Graphemes
            n == Len(g)
        IN  /\ n = 0 => ret.value = <<>>
            /\ n = 1 => ret.value = << <<g[1], " ", " ">> >>
            /\ n = 2 => ret.value = << <<g[1], g[2], " ">> >>
            /\ (n = 3 \/ n >= 6) => ret.value = Sliding(g)
            /\ n \in {4, 5} =>
                    ret.value = Sliding(g) \o << <<g[1], g[2], g[n]>>,
                                                 <<g[1], g[n - 1], g[n]>> >>

\* trigramize was called with a token of four characters that is five
\* graphemes after normalization, and returned five trigrams.
C19_Witness ==
    /\ call.op = "trigramize"
    /\ Len(call.token) = 4
    /\ Len(Graphemes) = 5
    /\ Len(ret.value) = 5

\* The should-scores of the last search, and the scores of a candidate.
ShouldScores ==
    should_scores(TheIndexer, MustHeatmap, call.query.should,
                  call.query.constraint)

TotalScore(p) == MustHeatmap.phrases[p].total_score

CombinedScore(p) == TotalScore(p) + should_score_of(ShouldScores, p)

BelowCutoff(p) ==
    TotalScore(p) * CutoffDen < call.query.scan_cutoff * MustHeatmap.max_score

\* The candidates the loop had not reached when it ended.
NotScanned == {trace.order[k] : k \in (trace.scanned + 1)..Len(trace.order)}

Exhaustive ==
    LET heatmap == CHOOSE h \in build_heatmap(TheIndexer.db, call.query.must) : TRUE
        query == [call.query EXCEPT !.limit = None, !.scan_cutoff = 0]
    IN  filtered_results(TheIndexer, query, heatmap,
                         should_scores(TheIndexer, heatmap, query.should,
                                       query.constraint)).results

\* The scan ended at a break, and the search returned a result.
StoppedEarly ==
    /\ Searched
    /\ trace.broke \in {"cutoff", "limit"}
    /\ Results # <<>>

\* C21, as stated: when the scan stops early, the first result returned is
\* the first result of an exhaustive scan of the same query: no candidate
\* left unscanned would sort before it under the final key.
C21_EarlyStopKeepsBest ==
    StoppedEarly => ~result_before(Exhaustive[1], Results[1])

\* C21, amended: when the scan stops early, the first result returned has
\* distance 0, the distance of the first result of an exhaustive scan of
\* the same query; the two agree on the first key of the final order, and
\* need not agree on the later keys.
C21_EarlyStopKeepsBestDistance ==
    StoppedEarly =>
        /\ Results[1].distance = 0
        /\ Exhaustive[1].distance = Results[1].distance

\* The scan stopped early and an exhaustive scan has a first result, of
\* distance 0 as well, that sorts before the first result returned.
C21_Witness ==
    /\ StoppedEarly
    /\ Exhaustive[1].distance = 0
    /\ result_before(Exhaustive[1], Results[1])

\* The heatmap the last search scanned: the one the cache holds for the
\* must token.
UsedHeatmap ==
    LET heatmaps == fuzzdex.ix.cache.heatmaps
    IN  heatmaps[CHOOSE i \in 1..Len(heatmaps) :
                    heatmaps[i].key = call.query.must].value

\* The token find() selects for candidate p, if any.
Selected(p) == valid_token(call.query, UsedHeatmap.phrases[p], Phrases[p])

\* C22: the scan does not stop before the last candidate while no result
\* of distance 0 has been emitted, whatever the limit; so with a limit of 1
\* or more, if the token selected for some candidate has distance 0, the
\* first result returned has distance 0.
C22_NoStopBeforeExactMatch ==
    Searched =>
        /\ trace.broke # "end" =>
                \E i \in 1..Len(trace.emitted) : trace.emitted[i].distance = 0
        /\ (/\ unwrap_or(call.query.limit, UsizeMax) >= 1
            /\ \E i \in 1..Len(trace.order) :
                    /\ Selected(trace.order[i]) # None
                    /\ Selected(trace.order[i])[1].distance = 0)
            => (Results # <<>> /\ Results[1].distance = 0)

\* With limit 1, the first candidate gave a result of distance 1 or more,
\* the scan went on past the limit, and a later candidate gave the result
\* of distance 0 that is returned.
C22_Witness ==
    /\ Searched
    /\ call.query.limit = Some(1)
    /\ Len(trace.emitted) >= 2
    /\ trace.emitted[1].distance > 0
    /\ Results # <<>>
    /\ Results[1].distance = 0

\* The tokens of phrase p that share a trigram with the must token: those
\* the heatmap has an entry for (token_idx counts from 0).
HeatmapTokens(p) ==
    {Phrases[p].tokens[i + 1] : i \in DOMAIN UsedHeatmap.phrases[p].tokens}

\* C23: the token reported for a phrase is its best matching token: among
\* the tokens of the phrase that share a trigram with the must token, none
\* has a strictly lower edit distance to must than the token of the result.
C23_ReportedTokenIsClosest ==
    Searched =>
        \A i \in 1..Len(Results) :
            \A token \in HeatmapTokens(Results[i].index) :
                distance(token, call.query.must) >= Results[i].distance

\* The phrases the loop went through, and the results pushed for phrase p.
Scanned == {trace.order[k] : k \in 1..trace.scanned}

EmittedFor(p) ==
    {i \in 1..Len(trace.emitted) : trace.emitted[i].index = p}

\* The heatmap tokens of phrase p within max_distance of the must token.
WithinMax(p) ==
    {i \in DOMAIN UsedHeatmap.phrases[p].tokens :
        distance(Phrases[p].tokens[i + 1], call.query.must)
            <= unwrap_or(call.query.max_distance, UsizeMax)}

\* Token i of phrase p comes strictly before token j in the order of the
\* walk: heat score descending, then byte length ascending.
WalkedBefore(p, i, j) ==
    LET score == UsedHeatmap.phrases[p].tokens
        len(k) == ByteLen(Phrases[p].tokens[k + 1])
    IN  \/ score[i] > score[j]
        \/ score[i] = score[j] /\ len(i) < len(j)

TrigramBonus(trigram, p) ==
    IF trigram \notin DOMAIN TheIndexer.db THEN 0
    ELSE LET entry == TheIndexer.db[trigram]
         IN  entry.score * Cardinality({k \in 1..Len(entry.positions) :
                                            entry.positions[k].phrase_idx = p})

\* The sum of TrigramBonus over the first n trigrams of the list.
RECURSIVE FirstTrigramsBonus(_, _, _)
FirstTrigramsBonus(trigrams, n, p) ==
    IF n = 0 \/ trigrams = <<>> THEN 0
    ELSE TrigramBonus(Head(trigrams), p)
            + FirstTrigramsBonus(Tail(trigrams), n - 1, p)

\* The should-score of phrase p if each should token counts through its
\* first n trigrams.
RECURSIVE ShouldBonus(_, _, _)
ShouldBonus(should_tokens, n, p) ==
    IF should_tokens = <<>> THEN 0
    ELSE FirstTrigramsBonus(trigramize(Head(should_tokens)), n, p)
            + ShouldBonus(Tail(should_tokens), n, p)

\* C25: a should token contributes to should-scores only through the
\* first 4 trigrams of its trigramize output: the should_score of every
\* result is the sum, over the should tokens and their first 4 trigrams,
\* of the trigram's score for each position of the phrase under it; so
\* tokens with equal first 4 trigrams give equal scores and a 5th trigram
\* changes nothing.
C25_ShouldCountsFourTrigrams ==
    Searched =>
        \A i \in 1..Len(Results) :
            Results[i].should_score
                = ShouldBonus(call.query.should, 4, Results[i].index)

\* A result whose should_score would be higher if the 5th trigram of the
\* should token counted: the phrase has a position under it.
C25_Witness ==
    /\ Searched
    /\ \E i \in 1..Len(Results) :
        /\ Results[i].should_score > 0
        /\ ShouldBonus(call.query.should, 5, Results[i].index)
                > Results[i].should_score

\* Phrase p has a token that shares a trigram with the must token.
SharesMustTrigram(p) ==
    \E i \in 1..Len(Phrases[p].tokens) :
        \E a \in 1..Len(trigramize(Phrases[p].tokens[i])) :
            \E b \in 1..Len(trigramize(call.query.must)) :
                trigramize(Phrases[p].tokens[i])[a]
                    = trigramize(call.query.must)[b]

\* Phrase p has a token that shares a trigram with a should token.
SharesShouldTrigram(p) ==
    \E i \in 1..Len(Phrases[p].tokens) :
        \E s \in 1..Len(call.query.should) :
            \E a \in 1..Len(trigramize(Phrases[p].tokens[i])) :
                \E b \in 1..Len(trigramize(call.query.should[s])) :
                    trigramize(Phrases[p].tokens[i])[a]
                        = trigramize(call.query.should[s])[b]

\* C26: should tokens only re-rank, they never add candidates:
\* should_scores has a score only for phrases that have a token sharing a
\* trigram with the must token and that satisfy the query constraint, and
\* every returned phrase has a token sharing a trigram with the must
\* token; a phrase matching only should tokens is not returned.
C26_ShouldAddsNoCandidate ==
    Searched =>
        /\ \A p \in DOMAIN ShouldScores :
                /\ SharesMustTrigram(p)
                /\ call.query.constraint # None =>
                        call.query.constraint[1] \in Phrases[p].constraints
        /\ \A i \in 1..Len(Results) : SharesMustTrigram(Results[i].index)

\* The Index holds a phrase that shares a trigram with a should token and
\* none with the must token, next to a phrase that is returned with a
\* should score.
C26_Witness ==
    /\ Searched
    /\ \E p \in DOMAIN Phrases :
            /\ SharesShouldTrigram(p)
            /\ ~SharesMustTrigram(p)
            /\ call.query.constraint # None =>
                    call.query.constraint[1] \in Phrases[p].constraints
    /\ \E i \in 1..Len(Results) : Results[i].should_score > 0

\* The tokens stored, as pairs of phrase_idx and token_idx (from 0).
StoredTokens ==
    UNION {{<<p, i>> : i \in 0..(Len(Phrases[p].tokens) - 1)} :
                p \in DOMAIN Phrases}

\* The number of times the trigram comes up in the trigramize output of
\* the stored tokens in the set.
RECURSIVE TrigramOccurrences(_, _)
TrigramOccurrences(trigram, stored) ==
    IF stored = {} THEN 0
    ELSE LET one == CHOOSE pt \in stored : TRUE
         IN  Occurrences(trigram,
                         trigramize(Phrases[one[1]].tokens[one[2] + 1]))
                + TrigramOccurrences(trigram, stored \ {one})

\* C27: whatever add_phrase calls were made, every Position stored under a
\* trigram refers to a stored phrase and to a token of it whose trigramize
\* output contains the trigram, a trigram has as many positions as it has
\* occurrences over the tokens of the stored phrases, and the keys of db
\* are the trigrams of the stored tokens.
C27_PositionsMatchPhrases ==
    LET db == TheIndexer.db
    IN  /\ \A trigram \in DOMAIN db :
            /\ \A k \in 1..Len(db[trigram].positions) :
                    LET pos == db[trigram].positions[k]
                        tokens == Phrases[pos.phrase_idx].tokens
                    IN  /\ <<pos.phrase_idx, pos.token_idx>> \in StoredTokens
                        /\ Occurrences(trigram,
                                trigramize(tokens[pos.token_idx + 1])) >= 1
            /\ Len(db[trigram].positions)
                    = TrigramOccurrences(trigram, StoredTokens)
        /\ \A pt \in StoredTokens :
                \A a \in 1..Len(trigramize(Phrases[pt[1]].tokens[pt[2] + 1])) :
                    trigramize(Phrases[pt[1]].tokens[pt[2] + 1])[a] \in DOMAIN db

\* An add_phrase was refused on an Indexer where a trigram has positions
\* for two tokens of one phrase and for a token of another phrase.
C27_Witness ==
    /\ IsIndexer
    /\ LastIs("add_phrase")
    /\ ret.kind = "Err"
    /\ \E trigram \in DOMAIN TheIndexer.db :
            \E a, b, c \in 1..Len(TheIndexer.db[trigram].positions) :
                LET positions == TheIndexer.db[trigram].positions
                IN  /\ positions[a].phrase_idx = positions[b].phrase_idx
                    /\ positions[a].token_idx # positions[b].token_idx
                    /\ positions[c].phrase_idx # positions[a].phrase_idx

\* The number of positions under a trigram of the db.
PositionCount(trigram) == Len(TheIndexer.db[trigram].positions)

\* The argument of tanh for a trigram: 5 * (avg - c_t - 1) / max over the
\* position counts of the db, in units of 1 / ScoreScale.
TanhArgument(trigram) ==
    LET keys == DOMAIN TheIndexer.db
        counts == [t \in keys |-> PositionCount(t)]
        avg == (SumOver(keys, counts) * ScoreScale) \div Cardinality(keys)
        max == CHOOSE c \in {counts[t] : t \in keys} :
                    \A t \in keys : counts[t] <= c
    IN  (5 * (avg - counts[trigram] * ScoreScale - ScoreScale)) \div max

\* C28: on an Index made of a non-empty Indexer every trigram's score is
\* 0.5 + 0.5 * tanh(5 * (avg - c_t - 1) / max) and lies strictly between
\* 0 and 1, the argument of tanh lies in [-5, 5), and a trigram with fewer
\* positions has no lower score than one with more.
C28_ScoresInRange ==
    IsIndex =>
        \A t \in DOMAIN TheIndexer.db :
            /\ TheIndexer.db[t].score
                    = (ScoreScale \div 2) + tanh(TanhArgument(t)) \div 2
            /\ TheIndexer.db[t].score > 0
            /\ TheIndexer.db[t].score < ScoreScale
            /\ TanhArgument(t) >= -5 * ScoreScale
            /\ TanhArgument(t) < 5 * ScoreScale
            /\ \A u \in DOMAIN TheIndexer.db :
                    PositionCount(t) < PositionCount(u)
                        => TheIndexer.db[t].score >= TheIndexer.db[u].score

\* An Index with trigrams of different position counts, the rarer with the
\* strictly higher score, and a trigram whose tanh argument is below -2.5.
C28_Witness ==
    /\ IsIndex
    /\ \E t, u \in DOMAIN TheIndexer.db :
            /\ PositionCount(t) < PositionCount(u)
            /\ TheIndexer.db[t].score > TheIndexer.db[u].score
            /\ 2 * TanhArgument(u) < -5 * ScoreScale

\* No search is under way.
AllSearchesReturned == \A t \in Threads : pool.th[t].pc = "idle"

\* Two searches of one query were made, by two threads, both missed and
\* both have returned.
BothMissed(t1, t2) ==
    /\ t1 # t2
    /\ pool.calls = 2
    /\ Returned(t1) /\ Returned(t2)
    /\ pool.th[t1].query = pool.th[t2].query
    /\ Stats.hits = 0
    /\ Stats.misses = 2

\* The counters and the cache after searches under any interleaving, on an
\* Index of capacity atleast: inserts <= misses, and inserts = misses once
\* every search has returned; two threads that missed on one must token
\* both inserted and the cache has one entry for it.
CountersConsistent(atleast) ==
    fuzzdex.ix.cache.cap >= atleast =>
        /\ Stats.inserts <= Stats.misses
        /\ AllSearchesReturned => Stats.inserts = Stats.misses
        /\ \A t1, t2 \in Threads :
                BothMissed(t1, t2) =>
                    /\ Stats.inserts = 2
                    /\ Cardinality({i \in 1..Len(fuzzdex.ix.cache.heatmaps) :
                            fuzzdex.ix.cache.heatmaps[i].key
                                = pool.th[t1].query[1].must}) = 1

\* A step adds 1 to hits + misses if a thread makes its lookup in it, and
\* leaves hits + misses alone otherwise.
LookupsCounted ==
    Stats'.hits + Stats'.misses
        = Stats.hits + Stats.misses
            + (IF \E t \in Threads : pool.th[t].pc = "get"
                                      /\ pool'.th[t].pc # "get"
               THEN 1 ELSE 0)

\* C29: under any interleaving of searches hits + misses is the number of
\* lookups made and inserts <= misses, with inserts = misses once all the
\* searches have returned; two threads that both miss on one must token
\* both insert, the cache keeps one entry for the token, and both return
\* the same list.
C29_CountersUnderInterleaving ==
    /\ [][LookupsCounted]_vars
    /\ [](/\ CountersConsistent(0)
           /\ \A t1, t2 \in Threads :
                BothMissed(t1, t2) => pool.th[t1].ret = pool.th[t2].ret)

\* The token has a trigram in common with the string, each trigramized as
\* it stands.
SharesTrigram(token, string) ==
    \E a \in 1..Len(trigramize(token)) :
        \E b \in 1..Len(trigramize(string)) :
            trigramize(token)[a] = trigramize(string)[b]

\* C30: when the tokenizer finds at most one token in the must string,
\* Query::new keeps the caller's string as query.must, not lowercased and
\* with its separators, and should as given; the search trigramizes that
\* string, caches the heatmap under it and reports the edit distance from
\* it to the lowercased token of the index.
C30_RawMustIsKept ==
    (Searched /\ Len(tokenize(call.in.must, 1)) <= 1) =>
        /\ call.query.must = call.in.must
        /\ call.query.should = call.in.should
        /\ call.in.must \in CachedKeys
        /\ \A i \in 1..Len(Results) :
                /\ Results[i].distance
                        = distance(call.in.must, Results[i].token)
                /\ SharesTrigram(Results[i].token, call.in.must)
                /\ Results[i].token = to_lowercase(Results[i].token)

\* A search whose must string is not the token the tokenizer finds in it
\* returned a token equal to that token, at a distance of 1 or more.
C30_Witness ==
    /\ Searched
    /\ Len(tokenize(call.in.must, 1)) = 1
    /\ tokenize(call.in.must, 1)[1] # call.in.must
    /\ \E i \in 1..Len(Results) :
            /\ Results[i].token = tokenize(call.in.must, 1)[1]
            /\ Results[i].distance >= 1

=============================================================================
